---- MODULE Spec2Model ----
(***************************************************************************)
(* Provider selection and rate-limited waterfall: the rate-limit stores    *)
(* (in-memory and Redis), the rate-limit provider filter, the selection    *)
(* pipeline and FindPhoneUseCase.execute.                                  *)
(*                                                                         *)
(* Time is the wall clock in milliseconds (Date.now()).  Each part of the  *)
(* program has its own specification over the shared variables:            *)
(*   SpecMem     InMemoryRateLimitStore called by several callers          *)
(*   SpecRedis   RedisRateLimitStore.tryConsume run by several workers,    *)
(*               one Redis command per step                                *)
(*   SpecFilter  RateLimitProviderFilter.consumeRateLimit over UTC hours   *)
(*   Spec        FindPhoneUseCase.execute, several concurrent calls        *)
(*   SpecFault   FindPhoneUseCase.execute with a rate-limit store whose    *)
(*               calls may reject                                          *)
(*   SpecPair    the same calls made on the in-memory and the Redis store  *)
(*   SpecRedisFault  RedisRateLimitStore over a backend whose commands may *)
(*               fail                                                      *)
(*   SpecFactory RateLimitStoreFactory.create and the stores it hands out  *)
(*   SpecOps     every operation of the in-memory store and of the filter  *)
(*   SpecSeq     FindPhoneUseCase.execute, one request after the other     *)
(*   SpecPipeline  the filters, the sorter and the pipeline on drawn lists *)
(*   SpecTerm    FindPhoneUseCase.execute under fair scheduling            *)
(*   SpecWorkflow  findPhoneWorkflow and the provider activities           *)
(*   SpecLazy    the lazily initialised singletons of the activities       *)
(***************************************************************************)
EXTENDS Integers, Sequences, FiniteSets, TLC

\* ------------------------------------------------------------------ bounds
MaxCalls == 4          \* store calls made in one behaviour of SpecMem
MaxLimit == 2          \* largest limit tried
MemWindowSeconds == 1  \* windowSeconds passed by the callers of SpecMem
MemTickMs == 500       \* clock step of SpecMem and SpecRedis
MemMaxTicks == 5       \* clock steps in one behaviour of SpecMem
MaxRedisCalls == 3     \* tryConsume calls started in one behaviour of SpecRedis
RedisMaxTicks == 3     \* clock steps in one behaviour of SpecRedis
FilterMaxTicks == 4    \* clock steps in one behaviour of SpecFilter, SpecSeq
UcMaxTicks == 1        \* clock steps in one behaviour of Spec and SpecFault
MaxOps == 3            \* store and filter calls in one behaviour of SpecOps
MaxCreates == 3        \* RateLimitStoreFactory.create calls in one behaviour
MaxExecutes == 3       \* execute calls in one behaviour of SpecSeq
MaxRuns == 1           \* findPhoneWorkflow runs in one behaviour of SpecWorkflow

\* ------------------------------------------------------- program constants
MsPerSecond == 1000
ConsumeWindowSeconds == 3600    \* windowSeconds of consumeRateLimit
SecondsPerHour == 3600          \* toISOString().slice(0, 13) ends at the hour
MsPerHour == SecondsPerHour * MsPerSecond
HalfHourMs == MsPerHour \div 2  \* clock step of SpecFilter

VARIABLES
    now,        \* Date.now(), milliseconds
    store,      \* InMemoryRateLimitStore.store: key -> timestamps
    limitOf,    \* the limit each key is consumed with (fixed per key)
    log,        \* history: the store calls made so far, in order
    impl,       \* which RedisRateLimitStore.tryConsume the workers run
    zset,       \* Redis: the sorted set of the key, member -> score
    expireAt,   \* Redis: when the key expires, 0 = no expiry set
    rlimit,     \* the limit the workers pass to tryConsume
    wk,         \* per worker: position in tryConsume and its locals
    rlog,       \* history: the tryConsume calls that returned, in order
    configs,    \* FindPhoneUseCase.providerConfigs: the provider list
    providerMap,      \* FindPhoneUseCase.providerMap: name -> adapter
    rateLimitFilter,  \* whether the use case was given a rateLimitFilter
    filters,    \* ProviderSelectionPipeline.filters, in registration order
    call,       \* per caller: position in execute() and its locals
    env,        \* process.env of the workers: REDIS_URL
    inst,       \* per holder: the store RateLimitStoreFactory.create gave it
    flog,       \* history: the RateLimitStoreFactory.create calls, in order
    stores,     \* the store objects the lazy initialisers have constructed
    singleton,  \* per module: its lazily initialised variable, 0 = null
    act         \* per activity invocation: position and the store it holds

memVars == <<store, limitOf, log>>
redisVars == <<impl, zset, expireAt, rlimit, wk, rlog>>
ucVars == <<configs, providerMap, rateLimitFilter, filters, call>>
facVars == <<env, inst, flog, stores, singleton, act>>

vars == <<now, store, limitOf, log, impl, zset, expireAt, rlimit, wk, rlog,
          configs, providerMap, rateLimitFilter, filters, call, env, inst, flog,
          stores, singleton, act>>

\* ------------------------------------------------------------ generic help
\* number of elements of the sequence s that satisfy Test
SeqCount(s, Test(_)) == Len(SelectSeq(s, Test))

Min(a, b) == IF a < b THEN a ELSE b

\* --------------------------------------------------- InMemoryRateLimitStore
MemKeys == {"k1", "k2"}

\* windowStart = now - windowSeconds * 1000
WindowStart(t, windowSeconds) == t - windowSeconds * MsPerSecond

\* mutant of Prune: a timestamp exactly one window old is still counted
PruneKeepsBoundary(timestamps, windowStart) ==
    SelectSeq(timestamps, LAMBDA ts : ts >= windowStart)

\* entry.timestamps.filter((ts) => ts > windowStart)
Prune(timestamps, windowStart) ==
    SelectSeq(timestamps, LAMBDA ts : ts > windowStart)

\* mutant of UnderLimit: off by one, a full entry still accepts a call
UnderLimitOffByOne(count, limit) == ~(count > limit)

\* the negation of `entry.timestamps.length >= limit`
UnderLimit(count, limit) == ~(count >= limit)

\* this.store.get(key), with a missing entry read as no timestamps
MemEntry(st, key) == IF key \in DOMAIN st THEN st[key] ELSE <<>>

\* mutant of MemTryConsumeStore: the timestamp of an allowed call is not pushed
MemTryConsumeStoreNoPush(st, key, limit, windowSeconds, t) ==
    [k \in DOMAIN st \cup {key} |->
        IF k = key THEN Prune(MemEntry(st, key), WindowStart(t, windowSeconds))
        ELSE st[k]]

\* value returned by tryConsume(key, limit, windowSeconds) at time t
MemTryConsumeResult(st, key, limit, windowSeconds, t) ==
    UnderLimit(Len(Prune(MemEntry(st, key), WindowStart(t, windowSeconds))), limit)

\* mutant of MemTryConsumeStore: an allowed call is recorded on every key
MemTryConsumeStoreOnEveryKey(st, key, limit, windowSeconds, t) ==
    LET live == Prune(MemEntry(st, key), WindowStart(t, windowSeconds))
        allowed == UnderLimit(Len(live), limit)
    IN  [k \in DOMAIN st \cup {key} |->
            IF k = key THEN (IF allowed THEN Append(live, t) ELSE live)
            ELSE IF allowed THEN Append(st[k], t) ELSE st[k]]

\* the store after tryConsume(key, limit, windowSeconds) at time t
MemTryConsumeStore(st, key, limit, windowSeconds, t) ==
    LET live == Prune(MemEntry(st, key), WindowStart(t, windowSeconds))
        next == IF UnderLimit(Len(live), limit) THEN Append(live, t) ELSE live
    IN  [k \in DOMAIN st \cup {key} |-> IF k = key THEN next ELSE st[k]]

\* getCount(key): entry ? entry.timestamps.length : 0
MemGetCount(st, key) == IF key \in DOMAIN st THEN Len(st[key]) ELSE 0

\* mutant of MemResetStore: reset clears every key
MemResetStoreClearsAll(st, key) == << >>

\* the store after reset(key): this.store.delete(key)
MemResetStore(st, key) == [k \in DOMAIN st \ {key} |-> st[k]]

\* the store after disconnect(): this.store.clear()
MemDisconnectStore(st) == << >>

\* mutant of MemGetCountStore: reading the count drops the entry of the key
MemGetCountStoreDeleting(st, key) == [k \in DOMAIN st \ {key} |-> st[k]]

\* mutant of MemGetCountStore: reading the count records a consumption
MemGetCountStoreRecording(st, key) ==
    [k \in DOMAIN st \cup {key} |->
        IF k = key THEN Append(MemEntry(st, key), 0) ELSE st[k]]

\* the store after getCount(key): the map is only read with store.get(key)
MemGetCountStore(st, key) == st

\* ------------------------------------------------------ RedisRateLimitStore
Workers == {"w1", "w2"}

\* the two tryConsume bodies of the repository: awaited commands, and one
\* pipeline() batch (a pipeline is not a MULTI transaction)
Impls == {"sequential", "pipeline"}

\* ZREMRANGEBYSCORE key min max: drops the members whose score is in [min, max]
ZRemRangeByScore(z, min, max) ==
    [m \in {x \in DOMAIN z : ~(z[x] >= min /\ z[x] <= max)} |-> z[m]]

\* ZCARD key
ZCard(z) == Cardinality(DOMAIN z)

\* ZADD key score member: a member already present only has its score updated
ZAdd(z, score, member) ==
    [m \in DOMAIN z \cup {member} |-> IF m = member THEN score ELSE z[m]]

\* `${now}`: the member is the decimal rendering of the timestamp, one member
\* per distinct timestamp
Member(t) == t

\* `currentCount < limit`
RedisAllowed(currentCount, limit) == currentCount < limit

\* in the awaited variant ZADD and EXPIRE run only `if (allowed)`; in the
\* pipeline variant they are always part of the batch
AddsWhen(variant, allowed) == variant = "pipeline" \/ allowed

\* the sorted set after one whole tryConsume(key, limit, windowSeconds) at
\* time t that no other command interleaves with
RedisTryConsumeZset(variant, z, limit, windowSeconds, t) ==
    LET live == ZRemRangeByScore(z, 0, WindowStart(t, windowSeconds))
    IN  IF AddsWhen(variant, RedisAllowed(ZCard(live), limit))
        THEN ZAdd(live, t, Member(t))
        ELSE live

\* value returned by that tryConsume: currentCount < limit, the count being
\* read after the expired members are removed and before the new one is added
RedisTryConsumeResult(z, limit, windowSeconds, t) ==
    RedisAllowed(ZCard(ZRemRangeByScore(z, 0, WindowStart(t, windowSeconds))), limit)

\* when the key expires after that tryConsume: expire(key, windowSeconds) runs
\* with the ZADD; a key left empty by ZREMRANGEBYSCORE is deleted
RedisTryConsumeExpireAt(variant, z, ex, limit, windowSeconds, t) ==
    LET live == ZRemRangeByScore(z, 0, WindowStart(t, windowSeconds))
    IN  IF AddsWhen(variant, RedisAllowed(ZCard(live), limit))
        THEN t + windowSeconds * MsPerSecond
        ELSE IF DOMAIN live = {} THEN 0 ELSE ex

\* getCount(key): `return await this.client.zcard(key)`
RedisGetCount(z) == ZCard(z)

\* the Redis commands of one tryConsume, in the order they are issued
Commands == {"zremrangebyscore", "zcard", "zadd", "expire"}

\* whether a command of tryConsume failed, `fails` being the commands Redis
\* answers with an error: the awaited variant stops at the first failing
\* command it issues (ZADD and EXPIRE are issued only when allowed), the
\* pipeline variant sends all four
RedisCommandFailed(variant, z, limit, windowSeconds, t, fails) ==
    IF variant = "pipeline" THEN fails # {}
    ELSE \/ "zremrangebyscore" \in fails
         \/ "zcard" \in fails
         \/ /\ RedisTryConsumeResult(z, limit, windowSeconds, t)
            /\ ({"zadd", "expire"} \cap fails) # {}

\* value returned by tryConsume when the commands in `fails` fail: the
\* awaited variant returns true from its catch block for any failing command;
\* the pipeline variant only looks at the error slot of ZCARD (results[1])
\* and otherwise returns currentCount < limit
RedisFaultyTryConsumeResult(variant, z, limit, windowSeconds, t, fails) ==
    LET live == IF "zremrangebyscore" \in fails THEN z
                ELSE ZRemRangeByScore(z, 0, WindowStart(t, windowSeconds))
    IN  IF variant = "pipeline"
        THEN IF "zcard" \in fails THEN TRUE ELSE RedisAllowed(ZCard(live), limit)
        ELSE IF RedisCommandFailed(variant, z, limit, windowSeconds, t, fails)
             THEN TRUE
             ELSE RedisAllowed(ZCard(live), limit)

\* the sorted set after tryConsume when the commands in `fails` fail
RedisFaultyTryConsumeZset(variant, z, limit, windowSeconds, t, fails) ==
    LET live == IF "zremrangebyscore" \in fails THEN z
                ELSE ZRemRangeByScore(z, 0, WindowStart(t, windowSeconds))
    IN  IF variant = "pipeline"
        THEN IF "zadd" \in fails THEN live ELSE ZAdd(live, t, Member(t))
        ELSE IF ({"zremrangebyscore", "zcard", "zadd"} \cap fails) # {} THEN live
             ELSE IF RedisAllowed(ZCard(live), limit) THEN ZAdd(live, t, Member(t))
             ELSE live

\* when the key expires after tryConsume when the commands in `fails` fail
RedisFaultyTryConsumeExpireAt(variant, z, ex, limit, windowSeconds, t, fails) ==
    LET after == RedisFaultyTryConsumeZset(variant, z, limit, windowSeconds, t, fails)
        issued == IF variant = "pipeline" THEN TRUE
                  ELSE /\ ({"zremrangebyscore", "zcard", "zadd"} \cap fails) = {}
                       /\ RedisTryConsumeResult(z, limit, windowSeconds, t)
    IN  IF DOMAIN after = {} THEN 0
        ELSE IF issued /\ "expire" \notin fails THEN t + windowSeconds * MsPerSecond
        ELSE ex

\* getCount(key): ZCARD, and 0 from the catch block when it fails
RedisFaultyGetCount(z, failed) == IF failed THEN 0 ELSE ZCard(z)

\* ------------------------------------------------ provider configuration
\* ProviderName
ORION_CONNECT == "ORION_CONNECT"
ASTRA_DIALER == "ASTRA_DIALER"
NIMBUS_LOOKUP == "NIMBUS_LOOKUP"
ProviderNames == {ORION_CONNECT, ASTRA_DIALER, NIMBUS_LOOKUP}

\* UserTier
FREE == 0
BASIC == 1
PREMIUM == 2
ENTERPRISE == 3

\* an optional field is <<>> when undefined and <<v>> when set
Undefined == <<>>
Some(v) == <<v>>

\* a ProviderConfig; rateLimit is the optional maxRequestsPerHour
Provider(name, enabled, priority, rateLimit, minUserTier) ==
    [name |-> name, enabled |-> enabled, priority |-> priority,
     rateLimit |-> rateLimit, minUserTier |-> minUserTier]

\* the provider lists the use case is constructed with: the shape of
\* PROVIDER_CONFIGS (small limits), scenario lists of the tests, a tiered
\* list with equal priorities, and a list given in ascending priority
ConfigLists ==
    { << Provider(ORION_CONNECT, TRUE, 10, Some(1), Undefined),
         Provider(NIMBUS_LOOKUP, TRUE, 5, Some(2), Undefined),
         Provider(ASTRA_DIALER, TRUE, 1, Undefined, Undefined) >>,
      << Provider(NIMBUS_LOOKUP, FALSE, 20, Some(1), Undefined),
         Provider(ORION_CONNECT, TRUE, 10, Some(1), Undefined),
         Provider(ASTRA_DIALER, TRUE, 5, Undefined, Undefined) >>,
      << Provider(ORION_CONNECT, TRUE, 10, Some(1), Some(PREMIUM)),
         Provider(NIMBUS_LOOKUP, TRUE, 5, Some(1), Some(BASIC)),
         Provider(ASTRA_DIALER, TRUE, 5, Undefined, Undefined) >>,
      << Provider(ASTRA_DIALER, TRUE, 1, Some(1), Undefined),
         Provider(NIMBUS_LOOKUP, TRUE, 5, Some(2), Some(FREE)),
         Provider(ORION_CONNECT, TRUE, 10, Some(1), Undefined) >> }

\* the adapter registered under each name; its name is the key it is
\* registered under.  One map has every adapter, one lacks ORION_CONNECT
AdapterMap(names) == [n \in names |-> [name |-> n]]
ProviderMaps == {AdapterMap(ProviderNames), AdapterMap(ProviderNames \ {ORION_CONNECT})}

\* the pipelines the use case is built with: enabled only (unit tests), and
\* enabled, tier, rate limit (getOrCreateFindPhoneUseCase)
Pipelines == {<<"enabled">>, <<"enabled", "tier", "rateLimit">>}

\* the context of a call: userTier absent, or PREMIUM
Contexts == {[userTier |-> t] : t \in {Undefined, Some(PREMIUM)}}

\* ----------------------------------------------------------------- filters
\* mutant of EnabledFilter: disabled providers are kept
EnabledFilterKeepsAll(providers) == providers

\* EnabledProviderFilter.filter
EnabledFilter(providers) == SelectSeq(providers, LAMBDA p : p.enabled)

\* mutant of UserTierOf: a context without userTier counts as the top tier
UserTierOfTopTier(context) ==
    IF context.userTier = Undefined THEN ENTERPRISE ELSE context.userTier[1]

\* context.userTier ?? 0
UserTierOf(context) ==
    IF context.userTier = Undefined THEN 0 ELSE context.userTier[1]

\* UserTierProviderFilter.filter
UserTierFilter(providers, context) ==
    SelectSeq(providers, LAMBDA p :
        IF p.minUserTier = Undefined THEN TRUE
        ELSE UserTierOf(context) >= p.minUserTier[1])

\* now.toISOString().slice(0, 13): the UTC date and hour of the instant,
\* which is the same for two instants exactly when they are in the same hour
HourOf(t) == t \div MsPerHour

\* mutant of RateLimitKey: the provider name is left out of the key
RateLimitKeyWithoutName(name, hour) == <<"provider", "", hour>>

\* `provider:${provider.name}:${hour}`
RateLimitKey(name, hour) == <<"provider", name, hour>>

\* mutant of RateLimitFilterKeeps: a provider at its limit is still kept
RateLimitFilterKeepsAtLimit(st, provider, hour) ==
    IF provider.rateLimit = Undefined THEN TRUE
    ELSE MemGetCount(st, RateLimitKey(provider.name, hour)) <= provider.rateLimit[1]

\* RateLimitProviderFilter.filter, the decision for one provider: kept when
\* it has no rateLimit, or getCount(key) < maxRequestsPerHour
RateLimitFilterKeeps(st, provider, hour) ==
    IF provider.rateLimit = Undefined THEN TRUE
    ELSE MemGetCount(st, RateLimitKey(provider.name, hour)) < provider.rateLimit[1]

\* RateLimitProviderFilter.filter(providers) at time t, every getCount read
\* from the store st: the kept providers, in input order
RateLimitFilter(st, providers, t) ==
    SelectSeq(providers, LAMBDA p : RateLimitFilterKeeps(st, p, HourOf(t)))

RECURSIVE RateLimitFilterStoreConsuming(_, _, _)
\* mutant of RateLimitFilterStore: the filter consumes a slot of every
\* provider that has a rateLimit
RateLimitFilterStoreConsuming(st, providers, t) ==
    IF providers = <<>> THEN st
    ELSE RateLimitFilterStoreConsuming(
             IF Head(providers).rateLimit = Undefined THEN st
             ELSE MemTryConsumeStore(st, RateLimitKey(Head(providers).name, HourOf(t)),
                                     Head(providers).rateLimit[1] + 1,
                                     SecondsPerHour, t),
             Tail(providers), t)

RECURSIVE RateLimitFilterStore(_, _, _)
\* the store after RateLimitProviderFilter.filter(providers) at time t: one
\* getCount for each provider that has a rateLimit
RateLimitFilterStore(st, providers, t) ==
    IF providers = <<>> THEN st
    ELSE RateLimitFilterStore(
             IF Head(providers).rateLimit = Undefined THEN st
             ELSE MemGetCountStore(st, RateLimitKey(Head(providers).name, HourOf(t))),
             Tail(providers), t)

\* value returned by RateLimitProviderFilter.consumeRateLimit(provider) at t
ConsumeRateLimitResult(st, provider, t) ==
    IF provider.rateLimit = Undefined THEN TRUE
    ELSE MemTryConsumeResult(st, RateLimitKey(provider.name, HourOf(t)),
                             provider.rateLimit[1], ConsumeWindowSeconds, t)

\* mutant of ConsumeRateLimitStore: a provider without a rateLimit is consumed
\* with a limit that is never reached
ConsumeRateLimitStoreOnEvery(st, provider, t) ==
    MemTryConsumeStore(st, RateLimitKey(provider.name, HourOf(t)),
                       IF provider.rateLimit = Undefined THEN MaxCalls + 1
                       ELSE provider.rateLimit[1],
                       ConsumeWindowSeconds, t)

\* the store after RateLimitProviderFilter.consumeRateLimit(provider) at t
ConsumeRateLimitStore(st, provider, t) ==
    IF provider.rateLimit = Undefined THEN st
    ELSE MemTryConsumeStore(st, RateLimitKey(provider.name, HourOf(t)),
                            provider.rateLimit[1], ConsumeWindowSeconds, t)

\* ------------------------------------------------------------------ sorter
\* mutant of ComparePriority: ascending order
ComparePriorityAscending(a, b) == a.priority - b.priority

\* the comparator of PriorityProviderSorter.sort: (a, b) => b.priority - a.priority
ComparePriority(a, b) == b.priority - a.priority

RECURSIVE InsertSorted(_, _)
\* p goes behind every element the comparator does not put after it, so
\* elements that compare equal keep their order (Array.prototype.sort is stable)
InsertSorted(sorted, p) ==
    IF sorted = <<>> THEN <<p>>
    ELSE IF ComparePriority(Head(sorted), p) <= 0
         THEN <<Head(sorted)>> \o InsertSorted(Tail(sorted), p)
         ELSE <<p>> \o sorted

RECURSIVE PrioritySort(_)
\* PriorityProviderSorter.sort: [...providers].sort(comparator)
PrioritySort(providers) ==
    IF providers = <<>> THEN <<>>
    ELSE InsertSorted(PrioritySort(SubSeq(providers, 1, Len(providers) - 1)),
                      providers[Len(providers)])

\* -------------------------------------------- each part before it is used
\* the in-memory store as constructed, and nothing called yet
MemIdle ==
    /\ store = << >>
    /\ limitOf = [k \in MemKeys |-> 0]
    /\ log = <<>>

WkIdle == [pc |-> "idle", t |-> 0, count |-> 0, recorded |-> FALSE]

RedisIdle ==
    /\ impl = "sequential"
    /\ zset = << >>
    /\ expireAt = 0
    /\ rlimit = 0
    /\ wk = [w \in Workers |-> WkIdle]
    /\ rlog = <<>>

Callers == {"c1", "c2"}

CallIdle ==
    [pc |-> "idle", ctx |-> [userTier |-> Undefined], work |-> <<>>, fpos |-> 0,
     rlIdx |-> 0, rlAcc |-> <<>>, hour |-> 0, avail |-> <<>>, idx |-> 0,
     invoked |-> <<>>, attempts |-> <<>>,
     result |-> [status |-> "pending", provider |-> ""]]

UcIdle ==
    /\ configs = <<>>
    /\ providerMap = << >>
    /\ rateLimitFilter = FALSE
    /\ filters = <<>>
    /\ call = [c \in Callers |-> CallIdle]

Holders == {"useCase", "orionActivity", "preview"}

\* a holder that has not called the factory yet
NoStore == [kind |-> "none", mem |-> << >>]

\* the modules that keep a lazily initialised singleton: phoneActivities
\* (findPhoneUseCase) and a provider activity (rateLimitFilter)
LazyHolders == {"useCase", "orionActivity"}

\* the activity invocations a worker process runs
Invocations == {"a1", "a2", "a3"}

\* an activity invocation that has not started
ActIdle == [pc |-> "idle", holder |-> "", held |-> 0, res |-> FALSE]

\* no lazy initialiser has run
LazyIdle ==
    /\ stores = <<>>
    /\ singleton = [h \in LazyHolders |-> 0]
    /\ act = [a \in Invocations |-> ActIdle]

FacIdle ==
    /\ env = [redisUrl |-> Undefined]
    /\ inst = [h \in Holders |-> NoStore]
    /\ flog = <<>>
    /\ LazyIdle

\* ------------------------------------------------------------------ SpecMem
InitMem ==
    /\ now = 0
    /\ store = << >>
    /\ limitOf \in [MemKeys -> 0..MaxLimit]
    /\ log = <<>>
    /\ RedisIdle
    /\ UcIdle
    /\ FacIdle

\* one caller runs store.tryConsume(key, limitOf[key], MemWindowSeconds); the
\* body has no await, so it runs to completion in one step
MemTryConsume(key) ==
    /\ Len(log) < MaxCalls
    /\ store' = MemTryConsumeStore(store, key, limitOf[key], MemWindowSeconds, now)
    /\ log' = Append(log, [op |-> "tryConsume", key |-> key, t |-> now,
                           res |-> MemTryConsumeResult(store, key, limitOf[key],
                                                       MemWindowSeconds, now)])
    /\ UNCHANGED <<now, limitOf>>
    /\ UNCHANGED <<redisVars, ucVars, facVars>>

\* the clock advances
MemTick ==
    /\ now < MemMaxTicks * MemTickMs
    /\ now' = now + MemTickMs
    /\ UNCHANGED <<store, limitOf, log>>
    /\ UNCHANGED <<redisVars, ucVars, facVars>>

NextMem ==
    \/ \E key \in MemKeys : MemTryConsume(key)
    \/ MemTick

SpecMem == InitMem /\ [][NextMem]_vars

\* ------------------------------------------------------- claims on SpecMem
\* the tryConsume calls made on key k, in the order they ran
MemCallsOn(k) == SelectSeq(log, LAMBDA e : e.op = "tryConsume" /\ e.key = k)

\* number of calls of `calls` that returned true with a timestamp in (lo, hi]
AllowedIn(calls, lo, hi) ==
    SeqCount(calls, LAMBDA e : e.res /\ e.t > lo /\ e.t <= hi)

\* all the calls lie inside one window
WithinOneWindow(calls) ==
    \A i, j \in DOMAIN calls :
        calls[j].t - calls[i].t < MemWindowSeconds * MsPerSecond

\* the values the clock can take in SpecMem
ClockValues == {i * MemTickMs : i \in 0..MemMaxTicks}

\* C2: of M tryConsume calls made on an initially empty key inside one
\* window, in whatever order they run, exactly min(M, limit) return true and
\* the others return false; with M > limit exactly limit calls succeed.
C2_ExactlyLimitSucceed ==
    \A k \in MemKeys :
        LET calls == MemCallsOn(k)
        IN  WithinOneWindow(calls) =>
                /\ SeqCount(calls, LAMBDA e : e.res) = Min(limitOf[k], Len(calls))
                /\ SeqCount(calls, LAMBDA e : ~e.res)
                       = Len(calls) - Min(limitOf[k], Len(calls))

\* more calls than the limit were made on one key inside one window, at
\* different clock values, and some were refused
C2_Witness ==
    \E k \in MemKeys :
        LET calls == MemCallsOn(k)
        IN  /\ limitOf[k] >= 1
            /\ Len(calls) > limitOf[k]
            /\ WithinOneWindow(calls)
            /\ \E i, j \in DOMAIN calls : calls[i].t # calls[j].t
            /\ \E i \in DOMAIN calls : ~calls[i].res

\* C3: on every key, the calls that returned true within any trailing
\* interval (T - window, T] never outnumber the limit, and a call returns
\* true exactly when fewer than limit earlier allowed calls are still inside
\* the window that ends at the call (so it is allowed again as soon as enough
\* consumptions have aged out).
C3_SlidingWindowBound ==
    \A k \in MemKeys :
        LET calls == MemCallsOn(k)
        IN  /\ \A T \in ClockValues :
                   AllowedIn(calls, WindowStart(T, MemWindowSeconds), T) <= limitOf[k]
            /\ \A i \in DOMAIN calls :
                   calls[i].res <=>
                       AllowedIn(SubSeq(calls, 1, i - 1),
                                 WindowStart(calls[i].t, MemWindowSeconds),
                                 calls[i].t) < limitOf[k]

\* a call was refused on a full key and a later call on the same key was
\* allowed once the earlier consumptions had aged out
C3_Witness ==
    \E k \in MemKeys :
        LET calls == MemCallsOn(k)
        IN  \E i, j \in DOMAIN calls :
                /\ i < j
                /\ ~calls[i].res
                /\ calls[j].res
                /\ AllowedIn(SubSeq(calls, 1, i - 1), -1, calls[i].t) = limitOf[k]
                /\ limitOf[k] >= 1

\* C29 (step part): a tryConsume on one key, allowed or refused, leaves the
\* recorded consumptions and the count of every other key as they were, and
\* with them what a tryConsume on the other key would return.
C29_OtherKeysUntouched ==
    (Len(log') = Len(log) + 1) =>
        \A k \in MemKeys \ {log'[Len(log')].key} :
            /\ MemEntry(store', k) = MemEntry(store, k)
            /\ MemGetCount(store', k) = MemGetCount(store, k)
            /\ MemTryConsumeResult(store', k, limitOf[k], MemWindowSeconds, now)
                  = MemTryConsumeResult(store, k, limitOf[k], MemWindowSeconds, now)

\* C29 (state part): a call is refused only when its own key holds limit
\* consumptions inside the window, however many the other key holds.
C29_RefusedOnlyByOwnKey ==
    \A i \in DOMAIN log :
        ~log[i].res =>
            AllowedIn(SelectSeq(SubSeq(log, 1, i - 1), LAMBDA e : e.key = log[i].key),
                      WindowStart(log[i].t, MemWindowSeconds), log[i].t)
                >= limitOf[log[i].key]

\* C29: distinct keys are independent: exhausting one key never changes the
\* count of another key nor refuses a call on it.
C29_KeysIndependent == [](C29_RefusedOnlyByOwnKey) /\ [][C29_OtherKeysUntouched]_vars

\* one key was filled and then refused a call, after which the other key
\* still allowed a call at the same clock value
C29_Witness ==
    \E i, j \in DOMAIN log :
        /\ i < j
        /\ log[i].key # log[j].key
        /\ ~log[i].res /\ limitOf[log[i].key] >= 1
        /\ log[j].res /\ log[j].t = log[i].t
        /\ limitOf[log[j].key] = 1

\* ---------------------------------------------------------------- SpecRedis
InitRedis ==
    /\ now = 0
    /\ impl \in Impls
    /\ zset = << >>
    /\ expireAt = 0
    /\ rlimit \in 1..MaxLimit
    /\ wk = [w \in Workers |-> WkIdle]
    /\ rlog = <<>>
    /\ MemIdle
    /\ UcIdle
    /\ FacIdle

\* number of tryConsume calls started so far
RedisStarted == Len(rlog) + Cardinality({w \in Workers : wk[w].pc # "idle"})

\* the call returns `res`
RedisReturn(w, res, recorded) ==
    /\ rlog' = Append(rlog, [t |-> wk[w].t, res |-> res, recorded |-> recorded])
    /\ wk' = [wk EXCEPT ![w] = WkIdle]

\* const now = Date.now(); const windowStart = now - windowSeconds * 1000
RStart(w) ==
    /\ wk[w].pc = "idle"
    /\ RedisStarted < MaxRedisCalls
    /\ wk' = [wk EXCEPT ![w] = [pc |-> "zrem", t |-> now, count |-> 0,
                                recorded |-> FALSE]]
    /\ UNCHANGED <<now, impl, zset, expireAt, rlimit, rlog>>
    /\ UNCHANGED <<memVars, ucVars, facVars>>

\* zremrangebyscore(key, 0, windowStart); Redis deletes a key left empty
RZrem(w) ==
    /\ wk[w].pc = "zrem"
    /\ zset' = ZRemRangeByScore(zset, 0, WindowStart(wk[w].t, MemWindowSeconds))
    /\ expireAt' = IF DOMAIN zset' = {} THEN 0 ELSE expireAt
    /\ wk' = [wk EXCEPT ![w].pc = "zcard"]
    /\ UNCHANGED <<now, impl, rlimit, rlog>>
    /\ UNCHANGED <<memVars, ucVars, facVars>>

\* zcard(key); the awaited variant returns false here when not allowed
RZcard(w) ==
    /\ wk[w].pc = "zcard"
    /\ LET count == ZCard(zset)
       IN  IF AddsWhen(impl, RedisAllowed(count, rlimit))
           THEN /\ wk' = [wk EXCEPT ![w].pc = "zadd", ![w].count = count]
                /\ rlog' = rlog
           ELSE RedisReturn(w, FALSE, FALSE)
    /\ UNCHANGED <<now, impl, zset, expireAt, rlimit>>
    /\ UNCHANGED <<memVars, ucVars, facVars>>

\* zadd(key, now, `${now}`)
RZadd(w) ==
    /\ wk[w].pc = "zadd"
    /\ zset' = ZAdd(zset, wk[w].t, Member(wk[w].t))
    /\ wk' = [wk EXCEPT ![w].pc = "expire",
                        ![w].recorded = (Member(wk[w].t) \notin DOMAIN zset)]
    /\ UNCHANGED <<now, impl, expireAt, rlimit, rlog>>
    /\ UNCHANGED <<memVars, ucVars, facVars>>

\* expire(key, windowSeconds), then the call returns currentCount < limit
RExpire(w) ==
    /\ wk[w].pc = "expire"
    /\ expireAt' = IF DOMAIN zset = {} THEN 0
                   ELSE now + MemWindowSeconds * MsPerSecond
    /\ RedisReturn(w, RedisAllowed(wk[w].count, rlimit), wk[w].recorded)
    /\ UNCHANGED <<now, impl, zset, rlimit>>
    /\ UNCHANGED <<memVars, ucVars, facVars>>

\* the clock advances; Redis drops the key when its expiry time is reached
RTick ==
    /\ now < RedisMaxTicks * MemTickMs
    /\ now' = now + MemTickMs
    /\ IF expireAt # 0 /\ now' >= expireAt
       THEN zset' = << >> /\ expireAt' = 0
       ELSE UNCHANGED <<zset, expireAt>>
    /\ UNCHANGED <<impl, rlimit, wk, rlog>>
    /\ UNCHANGED <<memVars, ucVars, facVars>>

NextRedis ==
    \/ \E w \in Workers : RStart(w)
    \/ \E w \in Workers : RZrem(w)
    \/ \E w \in Workers : RZcard(w)
    \/ \E w \in Workers : RZadd(w)
    \/ \E w \in Workers : RExpire(w)
    \/ RTick

SpecRedis == InitRedis /\ [][NextRedis]_vars

\* ----------------------------------------------------- claims on SpecRedis
\* the values the clock can take in SpecRedis
RedisClockValues == {i * MemTickMs : i \in 0..RedisMaxTicks}

\* C1: tryConsume on the Redis store acts as one atomic step: however the
\* workers' Redis commands interleave, the calls that returned true within
\* any trailing window never outnumber the limit.
C1_RedisNeverOverLimit ==
    \A T \in RedisClockValues :
        AllowedIn(rlog, WindowStart(T, MemWindowSeconds), T) <= rlimit

\* C5: a tryConsume call that returns false has recorded no consumption.
C5_DeniedRecordsNothing ==
    \A i \in DOMAIN rlog : ~rlog[i].res => ~rlog[i].recorded

\* ----------------------------------------------------------------- SpecPair
\* One caller makes the same calls, at the same clock readings, on an
\* InMemoryRateLimitStore and on a RedisRateLimitStore with a healthy
\* backend, awaiting each call before the next; log holds what the in-memory
\* store returned and rlog what the Redis store returned.
PairKey == "k1"

InitPair ==
    /\ now = 0
    /\ store = << >>
    /\ limitOf = [k \in MemKeys |-> 0]
    /\ log = <<>>
    /\ impl \in Impls
    /\ zset = << >>
    /\ expireAt = 0
    /\ rlimit \in 1..MaxLimit
    /\ wk = [w \in Workers |-> WkIdle]
    /\ rlog = <<>>
    /\ UcIdle
    /\ FacIdle

\* tryConsume(PairKey, rlimit, MemWindowSeconds) on both stores
PairTryConsume ==
    /\ Len(log) < MaxCalls
    /\ store' = MemTryConsumeStore(store, PairKey, rlimit, MemWindowSeconds, now)
    /\ log' = Append(log, [op |-> "tryConsume", key |-> PairKey, t |-> now,
                           res |-> MemTryConsumeResult(store, PairKey, rlimit,
                                                       MemWindowSeconds, now)])
    /\ zset' = RedisTryConsumeZset(impl, zset, rlimit, MemWindowSeconds, now)
    /\ expireAt' = RedisTryConsumeExpireAt(impl, zset, expireAt, rlimit,
                                           MemWindowSeconds, now)
    /\ rlog' = Append(rlog, [op |-> "tryConsume", key |-> PairKey, t |-> now,
                             res |-> RedisTryConsumeResult(zset, rlimit,
                                                           MemWindowSeconds, now)])
    /\ UNCHANGED <<now, limitOf, impl, rlimit, wk>>
    /\ UNCHANGED <<ucVars, facVars>>

\* getCount(PairKey) on both stores
PairGetCount ==
    /\ Len(log) < MaxCalls
    /\ store' = MemGetCountStore(store, PairKey)
    /\ log' = Append(log, [op |-> "getCount", key |-> PairKey, t |-> now,
                           res |-> MemGetCount(store, PairKey)])
    /\ rlog' = Append(rlog, [op |-> "getCount", key |-> PairKey, t |-> now,
                             res |-> RedisGetCount(zset)])
    /\ UNCHANGED <<now, limitOf, impl, zset, expireAt, rlimit, wk>>
    /\ UNCHANGED <<ucVars, facVars>>

\* reset(PairKey) on both stores: store.delete(key) and DEL key
PairReset ==
    /\ Len(log) < MaxCalls
    /\ store' = MemResetStore(store, PairKey)
    /\ log' = Append(log, [op |-> "reset", key |-> PairKey, t |-> now, res |-> 0])
    /\ zset' = << >>
    /\ expireAt' = 0
    /\ rlog' = Append(rlog, [op |-> "reset", key |-> PairKey, t |-> now, res |-> 0])
    /\ UNCHANGED <<now, limitOf, impl, rlimit, wk>>
    /\ UNCHANGED <<ucVars, facVars>>

\* the clock advances; Redis drops the key when its expiry time is reached
PairTick ==
    /\ now < MemMaxTicks * MemTickMs
    /\ now' = now + MemTickMs
    /\ IF expireAt # 0 /\ now' >= expireAt
       THEN zset' = << >> /\ expireAt' = 0
       ELSE UNCHANGED <<zset, expireAt>>
    /\ UNCHANGED <<store, limitOf, log, impl, rlimit, wk, rlog>>
    /\ UNCHANGED <<ucVars, facVars>>

NextPair ==
    \/ PairTryConsume
    \/ PairGetCount
    \/ PairReset
    \/ PairTick

SpecPair == InitPair /\ [][NextPair]_vars

\* ------------------------------------------------------ claims on SpecPair
\* the consumptions recorded before the j-th call of `calls` and not cleared
\* by a later reset, that are newer than t - windowSeconds
LiveBefore(calls, j, t) ==
    Cardinality({i \in 1..(j - 1) :
        /\ calls[i].op = "tryConsume"
        /\ calls[i].res
        /\ \A r \in (i + 1)..(j - 1) : calls[r].op # "reset"
        /\ calls[i].t > WindowStart(t, MemWindowSeconds)})

\* C13: getCount(key) of the in-memory store returns the number of recorded
\* consumptions of the key that are newer than now - windowSeconds at the
\* time of the call (0 for a key never consumed).
C13_GetCountIsLiveCount ==
    \A j \in DOMAIN log :
        log[j].op = "getCount" => log[j].res = LiveBefore(log, j, log[j].t)

\* C14 (step part): a getCount call leaves the recorded consumptions of both
\* stores as they were, so it adds no consumption and a later tryConsume
\* returns what it would have returned without it.
C14_GetCountKeepsStores ==
    (Len(log') = Len(log) + 1 /\ log'[Len(log')].op = "getCount")
        => (store' = store /\ zset' = zset /\ expireAt' = expireAt)

\* C14 (result part): two getCount calls in a row at the same clock value
\* return the same number, from either store.
C14_RepeatedGetCountAgrees ==
    \A j \in 1..(Len(log) - 1) :
        (log[j].op = "getCount" /\ log[j + 1].op = "getCount"
            /\ log[j].t = log[j + 1].t)
        => (log[j].res = log[j + 1].res /\ rlog[j].res = rlog[j + 1].res)

\* C14: getCount is read-only with respect to quota.
C14_GetCountReadOnly ==
    [](C14_RepeatedGetCountAgrees) /\ [][C14_GetCountKeepsStores]_vars

\* a consumption, two getCount calls at one clock value that both return 1,
\* and then a tryConsume refused at the limit the first call reached
C14_Witness ==
    /\ Len(log) = 4 /\ rlimit = 1
    /\ log[1].op = "tryConsume" /\ log[1].res
    /\ log[2].op = "getCount" /\ log[3].op = "getCount"
    /\ log[2].t = log[3].t
    /\ log[2].res = 1 /\ log[3].res = 1 /\ rlog[2].res = 1 /\ rlog[3].res = 1
    /\ log[4].op = "tryConsume" /\ ~log[4].res /\ ~rlog[4].res

\* C15: for every sequence of tryConsume, getCount and reset calls made with
\* the same arguments at the same clock readings by one caller, the in-memory
\* store and the Redis store return the same result for every call.
C15_StoresAgree ==
    \A j \in DOMAIN log : log[j].res = rlog[j].res

\* the tryConsume requests made before the j-th call of `calls` and not
\* cleared by a later reset, that are newer than t - windowSeconds, whatever
\* they returned
RequestsBefore(calls, j, t) ==
    Cardinality({i \in 1..(j - 1) :
        /\ calls[i].op = "tryConsume"
        /\ \A r \in (i + 1)..(j - 1) : calls[r].op # "reset"
        /\ calls[i].t > WindowStart(t, MemWindowSeconds)})

\* C31: getCount(key) of the Redis store counts every tryConsume request made
\* on the key within the window, the blocked ones included (after rlimit
\* allowed calls and one blocked call it returns rlimit + 1).
C31_GetCountCountsRequests ==
    \A j \in DOMAIN rlog :
        rlog[j].op = "getCount" => rlog[j].res = RequestsBefore(rlog, j, rlog[j].t)

\* every tryConsume made before the j-th call of `calls` and not cleared by a
\* later reset was allowed and is newer than t - windowSeconds
OnlyAllowedInWindow(calls, j, t) ==
    \A i \in 1..(j - 1) :
        (/\ calls[i].op = "tryConsume"
         /\ \A r \in (i + 1)..(j - 1) : calls[r].op # "reset")
        => (calls[i].res /\ calls[i].t > WindowStart(t, MemWindowSeconds))

\* C35: on the Redis store every allowed tryConsume raises the live count of
\* the key by exactly one, also when two allowed calls read the same
\* millisecond: after k allowed calls inside the window the sorted set holds
\* k entries and getCount returns k.
C35_AllowedCallsCounted ==
    /\ OnlyAllowedInWindow(rlog, Len(rlog) + 1, now)
        => ZCard(zset) = LiveBefore(rlog, Len(rlog) + 1, now)
    /\ \A j \in DOMAIN rlog :
        (rlog[j].op = "getCount" /\ OnlyAllowedInWindow(rlog, j, rlog[j].t))
        => rlog[j].res = LiveBefore(rlog, j, rlog[j].t)

\* ----------------------------------------------------------- SpecRedisFault
\* One caller uses a RedisRateLimitStore whose backend may answer any command
\* with an error; after disconnect() the client is closed and every command
\* fails.  rlog holds, for each call, whether a command failed and what the
\* call returned.
InitRedisFault ==
    /\ now = 0
    /\ impl \in Impls
    /\ zset = << >>
    /\ expireAt = 0
    /\ rlimit \in 1..MaxLimit
    /\ wk = [w \in Workers |-> WkIdle]
    /\ rlog = <<>>
    /\ MemIdle
    /\ UcIdle
    /\ FacIdle

\* client.quit() has been called
RedisClosed == \E i \in DOMAIN rlog : rlog[i].op = "disconnect"

\* tryConsume(key, rlimit, MemWindowSeconds) while the commands in `fails` fail
FaultyTryConsume(fails) ==
    /\ Len(rlog) < MaxRedisCalls
    /\ RedisClosed => fails = Commands
    /\ zset' = RedisFaultyTryConsumeZset(impl, zset, rlimit, MemWindowSeconds, now, fails)
    /\ expireAt' = RedisFaultyTryConsumeExpireAt(impl, zset, expireAt, rlimit,
                                                 MemWindowSeconds, now, fails)
    /\ rlog' = Append(rlog,
          [op |-> "tryConsume", t |-> now,
           failed |-> RedisCommandFailed(impl, zset, rlimit, MemWindowSeconds, now, fails),
           settled |-> "resolved",
           res |-> RedisFaultyTryConsumeResult(impl, zset, rlimit, MemWindowSeconds,
                                               now, fails)])
    /\ UNCHANGED <<now, impl, rlimit, wk>>
    /\ UNCHANGED <<memVars, ucVars, facVars>>

\* getCount(key) while ZCARD fails or not
FaultyGetCount(failed) ==
    /\ Len(rlog) < MaxRedisCalls
    /\ RedisClosed => failed
    /\ rlog' = Append(rlog, [op |-> "getCount", t |-> now, failed |-> failed,
                             settled |-> "resolved",
                             res |-> RedisFaultyGetCount(zset, failed)])
    /\ UNCHANGED <<now, impl, zset, expireAt, rlimit, wk>>
    /\ UNCHANGED <<memVars, ucVars, facVars>>

\* reset(key) while DEL fails or not
FaultyReset(failed) ==
    /\ Len(rlog) < MaxRedisCalls
    /\ RedisClosed => failed
    /\ IF failed THEN UNCHANGED <<zset, expireAt>>
       ELSE zset' = << >> /\ expireAt' = 0
    /\ rlog' = Append(rlog, [op |-> "reset", t |-> now, failed |-> failed,
                             settled |-> "resolved", res |-> 0])
    /\ UNCHANGED <<now, impl, rlimit, wk>>
    /\ UNCHANGED <<memVars, ucVars, facVars>>

\* disconnect() while QUIT fails or not
FaultyDisconnect(failed) ==
    /\ Len(rlog) < MaxRedisCalls
    /\ rlog' = Append(rlog, [op |-> "disconnect", t |-> now, failed |-> failed,
                             settled |-> "resolved", res |-> 0])
    /\ UNCHANGED <<now, impl, zset, expireAt, rlimit, wk>>
    /\ UNCHANGED <<memVars, ucVars, facVars>>

NextRedisFault ==
    \/ \E fails \in SUBSET Commands : FaultyTryConsume(fails)
    \/ \E failed \in BOOLEAN : FaultyGetCount(failed)
    \/ \E failed \in BOOLEAN : FaultyReset(failed)
    \/ \E failed \in BOOLEAN : FaultyDisconnect(failed)
    \/ RTick

SpecRedisFault == InitRedisFault /\ [][NextRedisFault]_vars

\* ------------------------------------------------ claims on SpecRedisFault
\* C16: the Redis store fails open: a tryConsume during which a backend
\* command failed returns true, a getCount whose command failed returns 0,
\* and no call (reset and disconnect included) rejects.
C16_RedisFailsOpen ==
    \A i \in DOMAIN rlog :
        /\ rlog[i].settled = "resolved"
        /\ (rlog[i].op = "tryConsume" /\ rlog[i].failed) => rlog[i].res = TRUE
        /\ (rlog[i].op = "getCount" /\ rlog[i].failed) => rlog[i].res = 0

\* -------------------------------------------------------------- SpecFactory
\* The holders of a rate-limit store (the use case of phoneActivities, the
\* OrionConnect activity, and getAvailablePhoneProviders, which asks the
\* factory for a store on every call) obtain their store from
\* RateLimitStoreFactory.create and consume through it.  Every
\* InMemoryRateLimitStore has its own map; every RedisRateLimitStore reads and
\* writes the one sorted set of the key in Redis.  The key has limit 1 and all
\* calls are made within one millisecond.
RedisUrls == {Undefined, Some("redis://localhost:6379")}

\* mutant of FactoryCreate: forceInMemory is not looked at
FactoryCreateIgnoringForce(config, connectOk) ==
    IF config.redisUrl # Undefined /\ connectOk THEN "redis" ELSE "memory"

\* RateLimitStoreFactory.create(config): the kind of store it returns,
\* connectOk telling whether a redisStore.connect() would resolve
FactoryCreate(config, connectOk) ==
    IF config.forceInMemory THEN "memory"
    ELSE IF config.redisUrl # Undefined /\ connectOk THEN "redis"
    ELSE "memory"

\* whether create(config) constructs a RedisRateLimitStore and calls connect()
FactoryConnects(config) == ~config.forceInMemory /\ config.redisUrl # Undefined

\* getCount(PairKey) through the store of holder h
InstGetCount(h) ==
    IF inst[h].kind = "redis" THEN RedisGetCount(zset)
    ELSE MemGetCount(inst[h].mem, PairKey)

InitFactory ==
    /\ now = 0
    /\ impl = "sequential"
    /\ zset = << >>
    /\ expireAt = 0
    /\ rlimit = 1
    /\ wk = [w \in Workers |-> WkIdle]
    /\ rlog = <<>>
    /\ MemIdle
    /\ UcIdle
    /\ env \in [redisUrl : RedisUrls]
    /\ inst = [h \in Holders |-> NoStore]
    /\ flog = <<>>
    /\ LazyIdle

\* holder h calls RateLimitStoreFactory.create: the use case and the activity
\* once (they keep their store), getAvailablePhoneProviders on every call;
\* connectOk tells whether Redis can be reached at that moment
FacCreate(h, forceInMemory, connectOk) ==
    /\ Len(flog) < MaxCreates
    /\ h = "preview" \/ inst[h].kind = "none"
    /\ LET config == [redisUrl |-> env.redisUrl, forceInMemory |-> forceInMemory]
       IN  /\ inst' = [inst EXCEPT ![h] = [kind |-> FactoryCreate(config, connectOk),
                                           mem |-> << >>]]
           /\ flog' = Append(flog, [holder |-> h, config |-> config,
                                    connectOk |-> connectOk,
                                    connects |-> FactoryConnects(config),
                                    settled |-> "resolved",
                                    kind |-> FactoryCreate(config, connectOk)])
    /\ UNCHANGED <<now, env, stores, singleton, act>>
    /\ UNCHANGED <<memVars, redisVars, ucVars>>

\* holder h consumes through its store: tryConsume(PairKey, rlimit, 3600)
FacConsume(h) ==
    /\ inst[h].kind # "none"
    /\ IF inst[h].kind = "redis"
       THEN /\ zset' = RedisTryConsumeZset(impl, zset, rlimit, ConsumeWindowSeconds, now)
            /\ expireAt' = RedisTryConsumeExpireAt(impl, zset, expireAt, rlimit,
                                                   ConsumeWindowSeconds, now)
            /\ inst' = inst
       ELSE /\ inst' = [inst EXCEPT ![h].mem =
                           MemTryConsumeStore(inst[h].mem, PairKey, rlimit,
                                              ConsumeWindowSeconds, now)]
            /\ UNCHANGED <<zset, expireAt>>
    /\ UNCHANGED <<now, impl, rlimit, wk, rlog, env, flog, stores, singleton, act>>
    /\ UNCHANGED <<memVars, ucVars>>

NextFactory ==
    \/ \E h \in Holders, forceInMemory \in BOOLEAN, connectOk \in BOOLEAN :
          FacCreate(h, forceInMemory, connectOk)
    \/ \E h \in Holders : FacConsume(h)

SpecFactory == InitFactory /\ [][NextFactory]_vars

\* --------------------------------------------------- claims on SpecFactory
\* C17: RateLimitStoreFactory.create never rejects and always returns a
\* store: the in-memory store, without a connect, when forceInMemory is set;
\* the Redis store when a redisUrl is given and connect succeeds; the
\* in-memory store when connect fails or no URL is configured.
C17_FactoryAlwaysYieldsStore ==
    \A i \in DOMAIN flog :
        LET e == flog[i] IN
        /\ e.settled = "resolved"
        /\ e.kind \in {"memory", "redis"}
        /\ e.config.forceInMemory => (e.kind = "memory" /\ ~e.connects)
        /\ (~e.config.forceInMemory /\ e.config.redisUrl # Undefined /\ e.connectOk)
              => e.kind = "redis"
        /\ (~e.config.forceInMemory /\ e.config.redisUrl # Undefined /\ ~e.connectOk)
              => e.kind = "memory"
        /\ e.config.redisUrl = Undefined => e.kind = "memory"

\* with a REDIS_URL configured, the factory was called with forceInMemory,
\* with a connect that succeeded and with a connect that failed
C17_Witness ==
    /\ env.redisUrl # Undefined
    /\ \E i \in DOMAIN flog : flog[i].config.forceInMemory /\ flog[i].kind = "memory"
    /\ \E i \in DOMAIN flog :
          ~flog[i].config.forceInMemory /\ flog[i].connectOk /\ flog[i].kind = "redis"
    /\ \E i \in DOMAIN flog :
          ~flog[i].config.forceInMemory /\ ~flog[i].connectOk /\ flog[i].kind = "memory"

\* C19: a key has one counter for all holders: getCount through any two
\* stores obtained from the factory returns the same number, whichever
\* implementation the factory selected.
C19_OneCounterForAllHolders ==
    \A h1, h2 \in Holders :
        (inst[h1].kind # "none" /\ inst[h2].kind # "none")
            => InstGetCount(h1) = InstGetCount(h2)

\* --------------------------------------------------------------- SpecFilter
\* RateLimitProviderFilter.consumeRateLimit called for the providers of one
\* list as the clock runs over several UTC hours
InitFilter ==
    /\ now = 0
    /\ store = << >>
    /\ limitOf = [k \in MemKeys |-> 0]
    /\ log = <<>>
    /\ configs \in ConfigLists
    /\ providerMap = << >>
    /\ rateLimitFilter = TRUE
    /\ filters = <<>>
    /\ call = [c \in Callers |-> CallIdle]
    /\ RedisIdle
    /\ FacIdle

\* consumeRateLimit(configs[i]) on the in-memory store
FConsume(i) ==
    /\ Len(log) < MaxCalls
    /\ store' = ConsumeRateLimitStore(store, configs[i], now)
    /\ log' = Append(log, [op |-> "consumeRateLimit", key |-> configs[i].name,
                           t |-> now,
                           res |-> ConsumeRateLimitResult(store, configs[i], now)])
    /\ UNCHANGED <<now, limitOf>>
    /\ UNCHANGED <<redisVars, ucVars, facVars>>

\* filter(configs) on the in-memory store, each getCount awaited by the one
\* caller before its next call; the names it returned are recorded
FFilter ==
    /\ Len(log) < MaxCalls
    /\ log' = Append(log, [op |-> "filter", key |-> "", t |-> now,
                           res |-> {p.name : p \in
                                      {RateLimitFilter(store, configs, now)[i] :
                                         i \in DOMAIN RateLimitFilter(store, configs, now)}}])
    /\ store' = RateLimitFilterStore(store, configs, now)
    /\ UNCHANGED <<now, limitOf>>
    /\ UNCHANGED <<redisVars, ucVars, facVars>>

\* the clock advances by half an hour
FTick ==
    /\ now < FilterMaxTicks * HalfHourMs
    /\ now' = now + HalfHourMs
    /\ UNCHANGED <<store, limitOf, log>>
    /\ UNCHANGED <<redisVars, ucVars, facVars>>

NextFilter ==
    \/ \E i \in DOMAIN configs : FConsume(i)
    \/ FFilter
    \/ FTick

SpecFilter == InitFilter /\ [][NextFilter]_vars

\* ---------------------------------------------------- claims on SpecFilter
\* the consumeRateLimit calls made for provider `name`, in order
ConsumeCallsOn(name) ==
    SelectSeq(log, LAMBDA e : e.op = "consumeRateLimit" /\ e.key = name)

\* the values the clock can take in SpecFilter
FilterClockValues == {i * HalfHourMs : i \in 0..FilterMaxTicks}

\* C4: for every provider with maxRequestsPerHour = N, the consumeRateLimit
\* calls that returned true within any trailing 3600-second interval never
\* outnumber N, also when the interval straddles a UTC hour boundary.
C4_NoBoundaryBurst ==
    \A i \in DOMAIN configs :
        configs[i].rateLimit # Undefined =>
            \A T \in FilterClockValues :
                AllowedIn(ConsumeCallsOn(configs[i].name),
                          WindowStart(T, ConsumeWindowSeconds), T)
                    <= configs[i].rateLimit[1]

\* the consumptions recorded for provider `name` before the j-th call that
\* are in the bucket of time t and not expired at t: consumeRateLimit calls
\* that returned true in the same UTC hour, newer than t - 3600 s
LiveInBucket(name, j, t) ==
    Cardinality({i \in 1..(j - 1) :
        /\ log[i].op = "consumeRateLimit"
        /\ log[i].key = name
        /\ log[i].res
        /\ HourOf(log[i].t) = HourOf(t)
        /\ log[i].t > WindowStart(t, ConsumeWindowSeconds)})

\* C11: RateLimitProviderFilter.filter leaves out a provider with
\* maxRequestsPerHour = N exactly when N non-expired consumptions exist for
\* its current bucket key; so a provider that was left out is returned again
\* once those consumptions are older than now - 3600 s.
C11_FilterExcludesAtLimit ==
    \A j \in DOMAIN log :
        log[j].op = "filter" =>
            \A i \in DOMAIN configs :
                LET p == configs[i] IN
                IF p.rateLimit = Undefined THEN p.name \in log[j].res
                ELSE (p.name \in log[j].res)
                        <=> (LiveInBucket(p.name, j, log[j].t) < p.rateLimit[1])

\* a provider left out by one filter call at its limit and returned by a later
\* one, when its oldest consumption is older than now - 3600 s
C11_Witness ==
    \E j1, j2 \in DOMAIN log : \E i \in DOMAIN configs :
        /\ j1 < j2
        /\ log[j1].op = "filter" /\ log[j2].op = "filter"
        /\ configs[i].rateLimit # Undefined
        /\ configs[i].name \notin log[j1].res
        /\ LiveInBucket(configs[i].name, j1, log[j1].t) = configs[i].rateLimit[1]
        /\ configs[i].name \in log[j2].res
        /\ \E k \in 1..(j1 - 1) :
              /\ log[k].op = "consumeRateLimit" /\ log[k].key = configs[i].name
              /\ log[k].res
              /\ log[k].t < WindowStart(log[j2].t, ConsumeWindowSeconds)

\* ------------------------------------------------------------------ SpecOps
\* Every operation of the in-memory store, called directly or through the
\* rate-limit filter by one caller: consumeRateLimit (tryConsume), filter
\* (getCount), reset and disconnect.

\* store.reset(key) for the current bucket key of configs[i]
OpsReset(i) ==
    /\ Len(log) < MaxOps
    /\ store' = MemResetStore(store, RateLimitKey(configs[i].name, HourOf(now)))
    /\ log' = Append(log, [op |-> "reset", key |-> configs[i].name, t |-> now,
                           res |-> TRUE])
    /\ UNCHANGED <<now, limitOf>>
    /\ UNCHANGED <<redisVars, ucVars, facVars>>

\* store.disconnect()
OpsDisconnect ==
    /\ Len(log) < MaxOps
    /\ store' = MemDisconnectStore(store)
    /\ log' = Append(log, [op |-> "disconnect", key |-> "", t |-> now, res |-> TRUE])
    /\ UNCHANGED <<now, limitOf>>
    /\ UNCHANGED <<redisVars, ucVars, facVars>>

NextOps ==
    \/ Len(log) < MaxOps /\ \E i \in DOMAIN configs : FConsume(i)
    \/ Len(log) < MaxOps /\ FFilter
    \/ \E i \in DOMAIN configs : OpsReset(i)
    \/ OpsDisconnect
    \/ FTick

SpecOps == InitFilter /\ [][NextOps]_vars

\* ------------------------------------------------------- claims on SpecOps
\* the operation of the step, "" for a step without a call
StepOp == IF Len(log') = Len(log) + 1 THEN log'[Len(log')].op ELSE ""

\* the recorded consumptions of some key differ after the step
ConsumptionsChange ==
    \E k \in DOMAIN store \cup DOMAIN store' : MemEntry(store', k) # MemEntry(store, k)

C20_StepMutation ==
    /\ ConsumptionsChange => StepOp \in {"consumeRateLimit", "reset", "disconnect"}
    /\ (\E k \in DOMAIN store' : Len(MemEntry(store', k)) > Len(MemEntry(store, k)))
          => StepOp = "consumeRateLimit"
    /\ StepOp = "filter" => store' = store

C30_ResetStep ==
    StepOp = "reset" =>
        LET key == RateLimitKey(log'[Len(log')].key, HourOf(now))
        IN  /\ MemGetCount(store', key) = 0
            /\ \A limit \in 1..MaxLimit :
                   MemTryConsumeResult(store', key, limit, ConsumeWindowSeconds, now)
            /\ \A k \in (DOMAIN store \cup DOMAIN store') \ {key} :
                   /\ k \in DOMAIN store /\ k \in DOMAIN store'
                   /\ store'[k] = store[k]
                   /\ MemGetCount(store', k) = MemGetCount(store, k)
            /\ key \notin DOMAIN store => store' = store

\* C30: reset(key) clears that key and no other.
C30_ResetClearsOneKey == [][C30_ResetStep]_vars

\* two providers each had a consumption recorded, the key of the first was
\* full; after reset of the first its key is gone and the second still has
\* its consumption
C30_Witness ==
    /\ Len(log) = 3
    /\ log[1].op = "consumeRateLimit" /\ log[1].res
    /\ log[2].op = "consumeRateLimit" /\ log[2].res
    /\ log[1].key # log[2].key
    /\ log[3].op = "reset" /\ log[3].key = log[1].key
    /\ log[1].t = now /\ log[2].t = now
    /\ \E i \in DOMAIN configs :
          configs[i].name = log[1].key /\ configs[i].rateLimit = Some(1)
    /\ \E i \in DOMAIN configs :
          configs[i].name = log[2].key /\ configs[i].rateLimit # Undefined
    /\ RateLimitKey(log[1].key, HourOf(now)) \notin DOMAIN store
    /\ MemGetCount(store, RateLimitKey(log[2].key, HourOf(now))) = 1

\* --------------------------------------------------- FindPhoneUseCase: Spec
\* mutant of ApplySyncFilter: the filter lets every provider through
ApplySyncFilterPassing(kind, providers, context) == providers

\* the filter at position i of the pipeline, applied in one step (no await
\* inside EnabledProviderFilter and UserTierProviderFilter)
ApplySyncFilter(kind, providers, context) ==
    IF kind = "enabled" THEN EnabledFilter(providers)
    ELSE UserTierFilter(providers, context)

\* mutant of ConsumesSlot: the slot is consumed before the adapter is looked up
ConsumesSlotBeforeLookup(hasAdapter, hasRateLimitFilter) == hasRateLimitFilter

\* `if (!provider) continue` stands before `if (this.rateLimitFilter)`:
\* consumeRateLimit is called only for a provider that has an adapter
ConsumesSlot(hasAdapter, hasRateLimitFilter) == hasAdapter /\ hasRateLimitFilter

\* mutant of MayInvoke: the adapter is called although the slot was refused
MayInvokeAlways(rateLimitAllowed) == TRUE

\* `if (!rateLimitAllowed) continue`: the adapter is called only when allowed
MayInvoke(rateLimitAllowed) == rateLimitAllowed

\* mutant of StopsAt: the waterfall goes on after a match
StopsAtNever(outcome) == FALSE

\* mutant of StopsAt: an adapter error ends the waterfall like a match
StopsAtAnyAnswer(outcome) == outcome # "null"

\* `if (result) return {...}`: the loop ends at the first non-null result
StopsAt(outcome) == outcome = "match"

\* mutant of NextIndex: the loop stays on the provider it just tried
NextIndexSameProvider(idx) == idx

\* `for (const config of availableConfigs)`: `continue` and the end of the
\* loop body move on to the next element of the list
NextIndex(idx) == idx + 1

\* what an adapter call can do: a match, null (no match), or throw
Outcomes == {"match", "null", "throw"}

\* number of times x occurs in the sequence s
Occurrences(s, x) == Len(SelectSeq(s, LAMBDA e : e = x))

Init ==
    /\ now = 0
    /\ store = << >>
    /\ limitOf = [k \in MemKeys |-> 0]
    /\ log = <<>>
    /\ configs \in ConfigLists
    /\ providerMap \in ProviderMaps
    /\ rateLimitFilter \in BOOLEAN
    /\ filters \in Pipelines
    /\ call = [c \in Callers |-> CallIdle]
    /\ RedisIdle
    /\ FacIdle

\* execute(params, filterContext) is called, once by each caller:
\* selectionPipeline.execute starts with result = providers
StartExecute(c, context) ==
    /\ call[c].pc = "idle"
    /\ call' = [call EXCEPT ![c] =
                   [CallIdle EXCEPT !.pc = "filter", !.ctx = context,
                                    !.work = configs, !.fpos = 1, !.rlIdx = 1]]
    /\ UNCHANGED <<now, configs, providerMap, rateLimitFilter, filters>>
    /\ UNCHANGED <<memVars, redisVars, facVars>>

\* result = await filter.filter(result, context) for the enabled and the tier
\* filter
ApplyFilter(c) ==
    /\ call[c].pc = "filter"
    /\ call[c].fpos <= Len(filters)
    /\ filters[call[c].fpos] \in {"enabled", "tier"}
    /\ call' = [call EXCEPT
                   ![c].work = ApplySyncFilter(filters[call[c].fpos],
                                               call[c].work, call[c].ctx),
                   ![c].fpos = call[c].fpos + 1]
    /\ UNCHANGED <<now, configs, providerMap, rateLimitFilter, filters>>
    /\ UNCHANGED <<memVars, redisVars, facVars>>

\* RateLimitProviderFilter.filter, one provider of its loop per step (it
\* awaits getCount for each); the hour is read once, when the filter starts
RateLimitFilterStep(c) ==
    /\ call[c].pc = "filter"
    /\ call[c].fpos <= Len(filters)
    /\ filters[call[c].fpos] = "rateLimit"
    /\ LET k == call[c].rlIdx
           hour == IF k = 1 THEN HourOf(now) ELSE call[c].hour
           acc == IF call[c].work = <<>> THEN <<>>
                  ELSE IF RateLimitFilterKeeps(store, call[c].work[k], hour)
                       THEN Append(call[c].rlAcc, call[c].work[k])
                       ELSE call[c].rlAcc
       IN  IF k >= Len(call[c].work)
           THEN call' = [call EXCEPT ![c].work = acc, ![c].rlAcc = <<>>,
                                     ![c].rlIdx = 1, ![c].hour = 0,
                                     ![c].fpos = call[c].fpos + 1]
           ELSE call' = [call EXCEPT ![c].rlAcc = acc, ![c].rlIdx = k + 1,
                                     ![c].hour = hour]
    /\ LET k == call[c].rlIdx
           hour == IF k = 1 THEN HourOf(now) ELSE call[c].hour
       IN  store' = IF call[c].work = <<>> THEN store
                    ELSE IF call[c].work[k].rateLimit = Undefined THEN store
                    ELSE MemGetCountStore(store, RateLimitKey(call[c].work[k].name, hour))
    /\ UNCHANGED <<now, limitOf, log, configs, providerMap, rateLimitFilter,
                   filters>>
    /\ UNCHANGED <<redisVars, facVars>>

\* `return this.sorter.sort(result)`, and execute() returns null at once when
\* the list is empty
FinishPipeline(c) ==
    /\ call[c].pc = "filter"
    /\ call[c].fpos > Len(filters)
    /\ LET availableConfigs == PrioritySort(call[c].work)
       IN  call' = [call EXCEPT
                       ![c].avail = availableConfigs,
                       ![c].work = <<>>,
                       ![c].idx = 1,
                       ![c].pc = IF Len(availableConfigs) = 0 THEN "done" ELSE "loop",
                       ![c].result = IF Len(availableConfigs) = 0
                                     THEN [status |-> "null", provider |-> ""]
                                     ELSE call[c].result]
    /\ UNCHANGED <<now, configs, providerMap, rateLimitFilter, filters>>
    /\ UNCHANGED <<memVars, redisVars, facVars>>

\* one iteration of the waterfall loop up to the adapter call: the adapter is
\* looked up, the rate limit consumed, and provider.findPhone(params) called
LoopStep(c) ==
    /\ call[c].pc = "loop"
    /\ call[c].idx <= Len(call[c].avail)
    /\ LET config == call[c].avail[call[c].idx]
           key == RateLimitKey(config.name, HourOf(now))
           allowed == ConsumeRateLimitResult(store, config, now)
           after == ConsumeRateLimitStore(store, config, now)
           attempt == [name |-> config.name, allowed |-> allowed, t |-> now,
                       recorded |-> Occurrences(MemEntry(after, key), now)
                                      - Occurrences(MemEntry(store, key), now)]
           calling == [name |-> config.name, outcome |-> "pending"]
       IN  /\ store' = IF ConsumesSlot(config.name \in DOMAIN providerMap,
                                       rateLimitFilter)
                        THEN after ELSE store
           /\ IF config.name \notin DOMAIN providerMap
              THEN call' = [call EXCEPT ![c].idx = NextIndex(call[c].idx)]
              ELSE IF rateLimitFilter
              THEN IF MayInvoke(allowed)
                   THEN call' = [call EXCEPT
                                    ![c].attempts = Append(call[c].attempts, attempt),
                                    ![c].invoked = Append(call[c].invoked, calling),
                                    ![c].pc = "wait"]
                   ELSE call' = [call EXCEPT
                                    ![c].attempts = Append(call[c].attempts, attempt),
                                    ![c].idx = NextIndex(call[c].idx)]
              ELSE call' = [call EXCEPT
                               ![c].invoked = Append(call[c].invoked, calling),
                               ![c].pc = "wait"]
    /\ UNCHANGED <<now, limitOf, log, configs, providerMap, rateLimitFilter,
                   filters>>
    /\ UNCHANGED <<redisVars, facVars>>

\* the adapter call settles: a match ends the call with the adapter's name, a
\* null result or an error (caught and logged) moves on to the next provider
AdapterReturns(c, outcome) ==
    /\ call[c].pc = "wait"
    /\ LET config == call[c].avail[call[c].idx]
           provider == providerMap[config.name]
           settled == [call[c].invoked EXCEPT ![Len(call[c].invoked)].outcome = outcome]
       IN  IF StopsAt(outcome)
           THEN call' = [call EXCEPT
                            ![c].invoked = settled,
                            ![c].pc = "done",
                            ![c].result = [status |-> "match",
                                           provider |-> provider.name]]
           ELSE call' = [call EXCEPT
                            ![c].invoked = settled,
                            ![c].pc = "loop",
                            ![c].idx = NextIndex(call[c].idx)]
    /\ UNCHANGED <<now, configs, providerMap, rateLimitFilter, filters>>
    /\ UNCHANGED <<memVars, redisVars, facVars>>

\* the loop is over without a match: `return null`
Exhausted(c) ==
    /\ call[c].pc = "loop"
    /\ call[c].idx > Len(call[c].avail)
    /\ call' = [call EXCEPT ![c].pc = "done",
                            ![c].result = [status |-> "null", provider |-> ""]]
    /\ UNCHANGED <<now, configs, providerMap, rateLimitFilter, filters>>
    /\ UNCHANGED <<memVars, redisVars, facVars>>

\* the clock advances by an hour
UcTick ==
    /\ now < UcMaxTicks * MsPerHour
    /\ now' = now + MsPerHour
    /\ UNCHANGED <<memVars, redisVars, ucVars, facVars>>

Next ==
    \/ \E c \in Callers, context \in Contexts : StartExecute(c, context)
    \/ \E c \in Callers : ApplyFilter(c)
    \/ \E c \in Callers : RateLimitFilterStep(c)
    \/ \E c \in Callers : FinishPipeline(c)
    \/ \E c \in Callers : LoopStep(c)
    \/ \E c \in Callers, outcome \in Outcomes : AdapterReturns(c, outcome)
    \/ \E c \in Callers : Exhausted(c)
    \/ UcTick

Spec == Init /\ [][Next]_vars

\* Every awaited call of execute returns: the promise of a store call
\* (getCount, tryConsume) and of an adapter call settles, and the event loop
\* then runs the continuation that waits for it, so no step of a call that
\* has started stays enabled for ever without being taken.
ExecuteFairness ==
    \A c \in Callers :
        WF_vars(\/ ApplyFilter(c)
                \/ RateLimitFilterStep(c)
                \/ FinishPipeline(c)
                \/ LoopStep(c)
                \/ \E outcome \in Outcomes : AdapterReturns(c, outcome)
                \/ Exhausted(c))

\* the steps of the calls, made within one clock reading
NextTerm ==
    \/ \E c \in Callers, context \in Contexts : StartExecute(c, context)
    \/ \E c \in Callers : ApplyFilter(c)
    \/ \E c \in Callers : RateLimitFilterStep(c)
    \/ \E c \in Callers : FinishPipeline(c)
    \/ \E c \in Callers : LoopStep(c)
    \/ \E c \in Callers, outcome \in Outcomes : AdapterReturns(c, outcome)
    \/ \E c \in Callers : Exhausted(c)

SpecTerm == Init /\ [][NextTerm]_vars /\ ExecuteFairness

\* ----------------------------------------------------------- claims on Spec
\* the names of a sequence of records
Names(seq) == [i \in DOMAIN seq |-> seq[i].name]

\* the configuration of the provider called `name`
ConfigOf(name) == configs[CHOOSE i \in DOMAIN configs : configs[i].name = name]

\* the providers of the eligible list the loop of call c has reached so far
Processed(c) ==
    LET r == call[c]
    IN  IF r.pc = "wait" \/ (r.pc = "done" /\ r.result.status = "match")
        THEN SubSeq(r.avail, 1, r.idx)
        ELSE IF r.pc \in {"loop", "done"}
        THEN SubSeq(r.avail, 1, Min(r.idx - 1, Len(r.avail)))
        ELSE <<>>

\* the call is in or past the waterfall loop
InWaterfall(c) == call[c].pc \in {"loop", "wait", "done"}

\* C6: the eligible list is in descending priority; the adapters invoked are
\* providers of that list, in its order, each at most once; a call that ends
\* with a match ends at the first adapter that returned one, with that
\* provider's name, and invoked nothing after it; a call that ends with null
\* saw no match; with an empty eligible list no adapter is invoked and the
\* result is null.
C6_WaterfallOrder ==
    \A c \in Callers :
        LET r == call[c]
            invokedNames == {r.invoked[i].name : i \in DOMAIN r.invoked}
            n == Len(r.invoked)
        IN  /\ InWaterfall(c) =>
                /\ \A i, j \in DOMAIN r.avail :
                       i < j => r.avail[i].priority >= r.avail[j].priority
                /\ Names(r.invoked)
                       = Names(SelectSeq(Processed(c), LAMBDA p : p.name \in invokedNames))
                /\ \A i \in 1..(n - 1) : r.invoked[i].outcome \in {"null", "throw"}
            /\ (r.pc = "done" /\ r.result.status = "match") =>
                /\ n >= 1
                /\ r.invoked[n].outcome = "match"
                /\ r.invoked[n].name = r.avail[r.idx].name
                /\ r.result.provider = r.invoked[n].name
            /\ (r.pc = "done" /\ r.result.status # "match") =>
                /\ r.result.status = "null"
                /\ \A i \in 1..n : r.invoked[i].outcome \in {"null", "throw"}
            /\ (r.pc = "done" /\ r.avail = <<>>) =>
                /\ r.invoked = <<>>
                /\ r.result.status = "null"

\* a call ended with a match of the second adapter it invoked, with a
\* provider of the eligible list left behind the winner
C6_Witness ==
    \E c \in Callers :
        /\ call[c].pc = "done"
        /\ call[c].result.status = "match"
        /\ Len(call[c].invoked) >= 2
        /\ call[c].idx < Len(call[c].avail)

\* C7 (state part): in a use case that has a rateLimitFilter, the adapters
\* invoked by a call are exactly the providers for which a consumption of the
\* same call returned true, in the same order; a provider whose consumption
\* was refused is not invoked.
C7_InvokedWereAllowed ==
    \A c \in Callers :
        rateLimitFilter =>
            Names(call[c].invoked)
                = Names(SelectSeq(call[c].attempts, LAMBDA a : a.allowed))

\* C7 (step part): a refused consumption moves the call to the next provider
\* of the list it already computed, and that list is not recomputed while
\* the waterfall runs.
C7_DeniedContinues ==
    \A c \in Callers :
        /\ (call[c].pc \in {"loop", "wait"}) => call'[c].avail = call[c].avail
        /\ ( /\ Len(call'[c].attempts) = Len(call[c].attempts) + 1
             /\ ~call'[c].attempts[Len(call'[c].attempts)].allowed )
           => /\ call'[c].pc = "loop"
              /\ call'[c].idx = call[c].idx + 1
              /\ call'[c].invoked = call[c].invoked

\* C7: a provider's adapter is invoked only after the consumption for that
\* provider returned true in the same call; when the consumption is refused
\* the adapter is not called and the call goes on with the next provider of
\* the already computed list.
C7_ConsumeBeforeInvoke == [](C7_InvokedWereAllowed) /\ [][C7_DeniedContinues]_vars

\* a provider passed the preview of the rate-limit filter, was refused at
\* consumption time because another caller took the slot, and the call went
\* on and invoked a later provider
C7_Witness ==
    \E c \in Callers :
        /\ rateLimitFilter
        /\ \E i \in DOMAIN filters : filters[i] = "rateLimit"
        /\ \E i \in DOMAIN call[c].attempts :
               /\ ~call[c].attempts[i].allowed
               /\ i < Len(call[c].attempts)
        /\ call[c].invoked # <<>>

\* C8 as stated: a call makes exactly one consumption attempt for each
\* provider its loop has reached.
C8_OneAttemptPerReached ==
    \A c \in Callers :
        (rateLimitFilter /\ InWaterfall(c)) =>
            Names(call[c].attempts) = Names(Processed(c))

\* C8 amended (state part): a call makes exactly one consumption attempt for
\* each provider its loop has reached that has a registered adapter, none
\* for the others; an attempt records one consumption when it is allowed and
\* the provider has a rateLimit, and none otherwise.
C8_AttemptsOfCall ==
    \A c \in Callers :
        (rateLimitFilter /\ InWaterfall(c)) =>
            /\ Names(call[c].attempts)
                   = Names(SelectSeq(Processed(c),
                                     LAMBDA p : p.name \in DOMAIN providerMap))
            /\ \A i \in DOMAIN call[c].attempts :
                   LET a == call[c].attempts[i]
                   IN  a.recorded = IF a.allowed /\ ConfigOf(a.name).rateLimit # Undefined
                                    THEN 1 ELSE 0

\* C8 amended (step part): the consumptions recorded under a key change only
\* in a step in which some call makes its attempt for that key's provider.
C8_OnlyAttemptsTouchStore ==
    \A name \in ProviderNames, h \in 0..UcMaxTicks :
        MemEntry(store', RateLimitKey(name, h)) # MemEntry(store, RateLimitKey(name, h))
            => \E c \in Callers :
                   /\ Len(call'[c].attempts) = Len(call[c].attempts) + 1
                   /\ call'[c].attempts[Len(call'[c].attempts)].name = name
                   /\ h = HourOf(now)

\* C8 amended: see the two parts above.
C8_ConsumptionPerCall == [](C8_AttemptsOfCall) /\ [][C8_OnlyAttemptsTouchStore]_vars

\* a call ended with a match, recorded one consumption for the winner, and
\* left behind it a provider that has a rateLimit; another provider of its
\* eligible list had no adapter
C8_Witness ==
    \E c \in Callers :
        /\ rateLimitFilter
        /\ call[c].pc = "done"
        /\ call[c].result.status = "match"
        /\ call[c].idx < Len(call[c].avail)
        /\ call[c].avail[call[c].idx + 1].rateLimit # Undefined
        /\ \E i \in DOMAIN call[c].attempts : call[c].attempts[i].recorded = 1
        /\ Len(call[c].attempts) < Len(Processed(c))

\* C9 (state part): when every adapter a call invoked threw, the call ends
\* with null, and for each invoked provider that has a rateLimit the call
\* made exactly one attempt, which recorded exactly one consumption; the
\* consumption recorded by an attempt stays in the store (no refund).
C9_SlotKept ==
    \A c \in Callers :
        LET r == call[c]
        IN  rateLimitFilter =>
              /\ ( /\ r.pc = "done"
                   /\ r.invoked # <<>>
                   /\ \A i \in DOMAIN r.invoked : r.invoked[i].outcome = "throw" )
                 => /\ r.result.status = "null"
                    /\ \A i \in DOMAIN r.invoked :
                           LET mine == SelectSeq(r.attempts,
                                                 LAMBDA a : a.name = r.invoked[i].name)
                           IN  /\ Len(mine) = 1
                               /\ ConfigOf(r.invoked[i].name).rateLimit # Undefined
                                      => mine[1].recorded = 1
              /\ \A i \in DOMAIN r.attempts :
                     r.attempts[i].recorded = 1 =>
                         Occurrences(MemEntry(store, RateLimitKey(r.attempts[i].name,
                                                                  HourOf(r.attempts[i].t))),
                                     r.attempts[i].t) >= 1

\* C9 (step part): the step in which an adapter call settles, whatever its
\* outcome, leaves every recorded consumption as it was.
C9_NoRefund ==
    \A c \in Callers :
        (call[c].pc = "wait" /\ call'[c].pc # "wait") => store' = store

\* C9: a provider whose adapter throws or returns null keeps the slot it
\* consumed; when every adapter throws, execute returns null and each
\* attempted provider's counter was incremented exactly once.
C9_FailedKeepsSlot == [](C9_SlotKept) /\ [][C9_NoRefund]_vars

\* a call ended after two adapters threw, one of them of a provider with a
\* rateLimit
C9_Witness ==
    \E c \in Callers :
        /\ rateLimitFilter
        /\ call[c].pc = "done"
        /\ Len(call[c].invoked) >= 2
        /\ \A i \in DOMAIN call[c].invoked : call[c].invoked[i].outcome = "throw"
        /\ \E i \in DOMAIN call[c].invoked :
               ConfigOf(call[c].invoked[i].name).rateLimit # Undefined

\* C12 (state part): as long as no call has made a consumption attempt, no
\* key has a recorded consumption, however many pipeline executions have run.
C12_NothingRecordedByPreview ==
    (\A c \in Callers : call[c].attempts = <<>>) => (\A k \in DOMAIN store : store[k] = <<>>)

\* C12 (step part): a step of selectionPipeline.execute (the enabled, tier and
\* rate-limit filters and the sort) leaves every key's recorded consumptions
\* as they were.
C12_PipelineStepKeepsStore ==
    \A c \in Callers :
        (call[c].pc \in {"idle", "filter"} /\ call'[c] # call[c]) => store' = store

\* C12: RateLimitProviderFilter.filter and ProviderSelectionPipeline.execute
\* never consume: running them any number of times leaves the recorded
\* consumptions of every key exactly as before.
C12_FilterNonConsuming ==
    [](C12_NothingRecordedByPreview) /\ [][C12_PipelineStepKeepsStore]_vars

\* a pipeline execution that read an exhausted counter, left its provider
\* out, and the counter still holds exactly its limit
C12_Witness ==
    \E c \in Callers : \E i \in DOMAIN configs :
        LET p == configs[i] IN
        /\ call[c].pc = "loop" /\ call[c].attempts = <<>>
        /\ Len(filters) = 3
        /\ p.enabled /\ p.rateLimit # Undefined
        /\ \A j \in DOMAIN call[c].avail : call[c].avail[j].name # p.name
        /\ RateLimitKey(p.name, HourOf(now)) \in DOMAIN store
        /\ Len(store[RateLimitKey(p.name, HourOf(now))]) = p.rateLimit[1]
        /\ \E j \in DOMAIN call[c].avail : call[c].avail[j].priority < p.priority

\* the consumptions recorded for provider `name` in UTC hour `hour` by all
\* calls together, whatever their filter context
TotalRecorded(name, hour) ==
    LET recordedBy(c) ==
            Len(SelectSeq(call[c].attempts,
                          LAMBDA a : a.name = name /\ HourOf(a.t) = hour /\ a.recorded = 1))
        sum[S \in SUBSET Callers] ==
            IF S = {} THEN 0
            ELSE LET c == CHOOSE x \in S : TRUE
                 IN  recordedBy(c) + sum[S \ {c}]
    IN  sum[Callers]

\* C18 (state part): the store holds, under the key of a provider and an
\* hour, exactly the consumptions all calls together recorded for that
\* provider in that hour, and it has no other keys.
C18_OneCounterPerProviderHour ==
    /\ \A k \in DOMAIN store :
          \E name \in ProviderNames, hour \in 0..UcMaxTicks : k = RateLimitKey(name, hour)
    /\ \A k \in DOMAIN store : MemGetCount(store, k) = TotalRecorded(k[2], k[3])
    /\ \A c \in Callers : \A i \in DOMAIN call[c].attempts :
          call[c].attempts[i].recorded = 1 =>
              RateLimitKey(call[c].attempts[i].name, HourOf(call[c].attempts[i].t))
                  \in DOMAIN store

\* C18 (step part): whether consumeRateLimit allows a call's attempt on a
\* provider with maxRequestsPerHour = N, and whether the rate-limit filter
\* keeps it, depends only on how many consumptions all calls together have
\* recorded for that provider in the current hour: fewer than N or not.
C18_DecisionsUseSharedCount ==
    \A c \in Callers :
        /\ Len(call'[c].attempts) = Len(call[c].attempts) + 1 =>
              LET a == call'[c].attempts[Len(call'[c].attempts)]
                  p == ConfigOf(a.name)
              IN  p.rateLimit # Undefined =>
                      (a.allowed <=> TotalRecorded(a.name, HourOf(a.t)) < p.rateLimit[1])
        /\ (/\ call[c].pc = "filter" /\ call'[c] # call[c]
            /\ call[c].fpos <= Len(filters)
            /\ filters[call[c].fpos] = "rateLimit"
            /\ call[c].work # <<>>) =>
              LET k == call[c].rlIdx
                  p == call[c].work[k]
                  hour == IF k = 1 THEN HourOf(now) ELSE call[c].hour
                  out == IF k >= Len(call[c].work) THEN call'[c].work
                         ELSE call'[c].rlAcc
              IN  p.rateLimit # Undefined =>
                      ((out = Append(call[c].rlAcc, p))
                          <=> TotalRecorded(p.name, hour) < p.rateLimit[1])

\* C18: rate-limit consumption is scoped to the provider (name and UTC hour)
\* and shared by all callers: consumptions made for different users add up in
\* one counter, and a provider exhausted for one user is refused and filtered
\* out for every user.
C18_ProviderScopedCounter ==
    [](C18_OneCounterPerProviderHour) /\ [][C18_DecisionsUseSharedCount]_vars

\* two calls with different filter contexts: one recorded the consumption
\* that used up a provider, the other was refused that provider in the same
\* hour
C18_Witness ==
    \E c1, c2 \in Callers :
        /\ c1 # c2 /\ call[c1].ctx # call[c2].ctx
        /\ \E i \in DOMAIN call[c1].attempts, j \in DOMAIN call[c2].attempts :
              /\ call[c1].attempts[i].name = call[c2].attempts[j].name
              /\ HourOf(call[c1].attempts[i].t) = HourOf(call[c2].attempts[j].t)
              /\ call[c1].attempts[i].recorded = 1
              /\ ~call[c2].attempts[j].allowed
              /\ call[c2].attempts[j].recorded = 0

\* the filters registered in the pipeline of the use case
RegisteredFilters == {filters[i] : i \in DOMAIN filters}

\* the provider is shut out of the calls made with `context`: it is disabled
\* (and the pipeline has the enabled filter), or its minUserTier is above the
\* caller's tier, FREE when the context has none (and the pipeline has the
\* tier filter)
ShutOut(p, context) ==
    \/ "enabled" \in RegisteredFilters /\ ~p.enabled
    \/ /\ "tier" \in RegisteredFilters
       /\ p.minUserTier # Undefined
       /\ (IF context.userTier = Undefined THEN FREE ELSE context.userTier[1])
              < p.minUserTier[1]

\* C21: a provider that is disabled, or whose minUserTier is above the
\* caller's tier (FREE when the context has none), is not in the eligible list
\* of the call, its adapter is never invoked by the call and the call makes no
\* consumption attempt for it, whatever its priority and its counter.
C21_ExcludedNeverUsed ==
    \A c \in Callers : \A i \in DOMAIN configs :
        LET r == call[c]
            p == configs[i]
        IN  (r.pc # "idle" /\ ShutOut(p, r.ctx)) =>
                /\ \A j \in DOMAIN r.invoked : r.invoked[j].name # p.name
                /\ \A j \in DOMAIN r.attempts : r.attempts[j].name # p.name
                /\ InWaterfall(c) => \A j \in DOMAIN r.avail : r.avail[j].name # p.name

\* a call made without a userTier ended with a match of a provider of lower
\* priority than an enabled PREMIUM provider whose counter is under its limit
C21_Witness ==
    \E c \in Callers : \E i \in DOMAIN configs :
        LET r == call[c]
            p == configs[i]
        IN  /\ rateLimitFilter /\ Len(filters) = 3
            /\ r.pc = "done" /\ r.result.status = "match"
            /\ r.ctx.userTier = Undefined
            /\ p.enabled /\ p.minUserTier = Some(PREMIUM)
            /\ p.rateLimit # Undefined
            /\ MemGetCount(store, RateLimitKey(p.name, HourOf(now))) < p.rateLimit[1]
            /\ p.priority > ConfigOf(r.result.provider).priority
            /\ \A j \in DOMAIN r.invoked : r.invoked[j].name # p.name

\* C23 (state part): no call made a consumption attempt for, or invoked, a
\* provider that has no adapter in the provider map, and a call that is over
\* ended with a match or with null.
C23_NoAdapterNoUse ==
    \A c \in Callers :
        /\ \A j \in DOMAIN call[c].attempts :
               call[c].attempts[j].name \in DOMAIN providerMap
        /\ \A j \in DOMAIN call[c].invoked :
               call[c].invoked[j].name \in DOMAIN providerMap
        /\ call[c].pc = "done" => call[c].result.status \in {"match", "null"}

\* C23 (step part): when the loop of a call reaches a provider that has no
\* adapter, the step leaves every counter as it was and moves the call to the
\* next provider of its list, with nothing else of the call changed.
C23_SkipStep ==
    \A c \in Callers :
        ( /\ call[c].pc = "loop"
          /\ call[c].idx <= Len(call[c].avail)
          /\ call[c].avail[call[c].idx].name \notin DOMAIN providerMap
          /\ call'[c] # call[c] )
        => /\ store' = store
           /\ call'[c] = [call[c] EXCEPT !.idx = call[c].idx + 1]

\* C23: an eligible provider that has no registered adapter is skipped without
\* error and without a consumption, and the waterfall goes on with the next
\* provider.
C23_MissingAdapterSkipped == [](C23_NoAdapterNoUse) /\ [][C23_SkipStep]_vars

\* a call skipped its first provider, which has a rateLimit and no adapter,
\* and ended with a match of a later provider; the skipped provider has no
\* consumption recorded
C23_Witness ==
    \E c \in Callers :
        LET r == call[c]
        IN  /\ rateLimitFilter
            /\ r.pc = "done" /\ r.result.status = "match"
            /\ r.idx >= 2
            /\ r.avail[1].name \notin DOMAIN providerMap
            /\ r.avail[1].rateLimit # Undefined
            /\ Names(r.invoked) = <<r.avail[2].name>>
            /\ \A h \in 0..UcMaxTicks :
                   MemGetCount(store, RateLimitKey(r.avail[1].name, h)) = 0

\* ---------------------------------------------------------------- SpecFault
\* FindPhoneUseCase.execute with an IRateLimitStore whose calls may reject:
\* the awaits of selectionPipeline.execute and of consumeRateLimit are
\* outside the try block of execute()

\* getCount rejects inside RateLimitProviderFilter.filter: the filter, the
\* pipeline and execute() reject
FilterRejects(c) ==
    /\ call[c].pc = "filter"
    /\ call[c].fpos <= Len(filters)
    /\ filters[call[c].fpos] = "rateLimit"
    /\ call[c].work # <<>>
    /\ call[c].work[call[c].rlIdx].rateLimit # Undefined
    /\ call' = [call EXCEPT ![c].pc = "done",
                            ![c].result = [status |-> "rejected", provider |-> ""]]
    /\ UNCHANGED <<now, configs, providerMap, rateLimitFilter, filters>>
    /\ UNCHANGED <<memVars, redisVars, facVars>>

\* tryConsume rejects inside consumeRateLimit: execute() rejects
ConsumeRejects(c) ==
    /\ call[c].pc = "loop"
    /\ call[c].idx <= Len(call[c].avail)
    /\ call[c].avail[call[c].idx].name \in DOMAIN providerMap
    /\ rateLimitFilter
    /\ call[c].avail[call[c].idx].rateLimit # Undefined
    /\ call' = [call EXCEPT ![c].pc = "done",
                            ![c].result = [status |-> "rejected", provider |-> ""]]
    /\ UNCHANGED <<now, configs, providerMap, rateLimitFilter, filters>>
    /\ UNCHANGED <<memVars, redisVars, facVars>>

NextFault ==
    \/ Next
    \/ \E c \in Callers : FilterRejects(c)
    \/ \E c \in Callers : ConsumeRejects(c)

SpecFault == Init /\ [][NextFault]_vars

\* ------------------------------------------------------ claims on SpecFault
\* C10: execute never rejects, whatever an adapter, a filter or a rate-limit
\* store call does: every call ends with a match or with null.
C10_ExecuteNeverRejects ==
    \A c \in Callers :
        call[c].pc = "done" => call[c].result.status \in {"match", "null"}

\* --------------------------------- one whole execute by a single caller
\* one filter of the pipeline applied to `providers` at time t, the
\* rate-limit filter reading its counts from the store st
ApplyOneFilter(kind, providers, context, st, t) ==
    IF kind = "rateLimit" THEN RateLimitFilter(st, providers, t)
    ELSE ApplySyncFilter(kind, providers, context)

\* the getCount calls RateLimitProviderFilter.filter(providers) makes: one for
\* each provider that has a rateLimit, in input order
GetCountReads(kind, providers) ==
    IF kind = "rateLimit"
    THEN Names(SelectSeq(providers, LAMBDA p : p.rateLimit # Undefined))
    ELSE <<>>

RECURSIVE PipelineExecuteLastFirst(_, _, _, _, _, _)
\* mutant of PipelineExecute: the filters are applied from the last registered
\* to the first
PipelineExecuteLastFirst(fs, providers, context, st, t, reads) ==
    IF fs = <<>> THEN [out |-> PrioritySort(providers), reads |-> reads]
    ELSE PipelineExecuteLastFirst(
             SubSeq(fs, 1, Len(fs) - 1),
             ApplyOneFilter(fs[Len(fs)], providers, context, st, t),
             context, st, t,
             reads \o GetCountReads(fs[Len(fs)], providers))

RECURSIVE PipelineExecute(_, _, _, _, _, _)
\* ProviderSelectionPipeline.execute(providers, context) with the registered
\* filters fs, run at time t against the store st without another caller in
\* between: `out` is the list it returns, `reads` the providers whose counter
\* the run read with getCount, in the order of the reads
PipelineExecute(fs, providers, context, st, t, reads) ==
    IF fs = <<>> THEN [out |-> PrioritySort(providers), reads |-> reads]
    ELSE PipelineExecute(
             Tail(fs),
             ApplyOneFilter(Head(fs), providers, context, st, t),
             context, st, t,
             reads \o GetCountReads(Head(fs), providers))

RECURSIVE Waterfall(_, _, _, _, _, _)
\* the waterfall loop of FindPhoneUseCase.execute over the eligible list
\* `avail`, run at time t without another caller in between; outcomes tells
\* what each adapter does when called; acc carries the store and what the
\* call has done so far
Waterfall(avail, map, hasRateLimitFilter, t, outcomes, acc) ==
    IF avail = <<>>
    THEN [acc EXCEPT !.result = [status |-> "null", provider |-> ""]]
    ELSE LET config == Head(avail)
             allowed == IF hasRateLimitFilter
                        THEN ConsumeRateLimitResult(acc.store, config, t)
                        ELSE TRUE
             consumed ==
                 IF hasRateLimitFilter
                 THEN [acc EXCEPT
                          !.store = ConsumeRateLimitStore(acc.store, config, t),
                          !.attempts = Append(@, [name |-> config.name,
                                                  allowed |-> allowed])]
                 ELSE acc
             called == [consumed EXCEPT
                          !.invoked = Append(@, [name |-> config.name,
                                                 outcome |-> outcomes[config.name]])]
         IN  IF config.name \notin DOMAIN map
             THEN Waterfall(Tail(avail), map, hasRateLimitFilter, t, outcomes, acc)
             ELSE IF ~MayInvoke(allowed)
             THEN Waterfall(Tail(avail), map, hasRateLimitFilter, t, outcomes, consumed)
             ELSE IF StopsAt(outcomes[config.name])
             THEN [called EXCEPT !.result = [status |-> "match",
                                             provider |-> map[config.name].name]]
             ELSE Waterfall(Tail(avail), map, hasRateLimitFilter, t, outcomes, called)

\* ------------------------------------------------------------------ SpecSeq
\* Requests served one after the other by one use case built like
\* getOrCreateFindPhoneUseCase (or with the enabled filter only), every
\* execute awaited before the next starts, while the clock runs over UTC hours.
\* Scenario A: A (priority 10, limit 1) and B (priority 5, no limit).
ScenarioA ==
    << Provider(ORION_CONNECT, TRUE, 10, Some(1), Undefined),
       Provider(ASTRA_DIALER, TRUE, 5, Undefined, Undefined) >>

InitSeq ==
    /\ now = 0
    /\ store = << >>
    /\ limitOf = [k \in MemKeys |-> 0]
    /\ log = <<>>
    /\ configs = ScenarioA
    /\ providerMap = AdapterMap(ProviderNames)
    /\ rateLimitFilter = TRUE
    /\ filters \in Pipelines
    /\ call = [c \in Callers |-> CallIdle]
    /\ RedisIdle
    /\ FacIdle

\* execute(params, {}) from its call to its return: the pipeline, then the
\* waterfall; outcomes is what each adapter does in this request
SeqExecute(outcomes) ==
    /\ Len(log) < MaxExecutes
    /\ LET context == [userTier |-> Undefined]
           run == PipelineExecute(filters, configs, context, store, now, <<>>)
           done == IF run.out = <<>>
                   THEN [store |-> store, invoked |-> <<>>, attempts |-> <<>>,
                         result |-> [status |-> "null", provider |-> ""]]
                   ELSE Waterfall(run.out, providerMap, rateLimitFilter, now, outcomes,
                                  [store |-> store, invoked |-> <<>>, attempts |-> <<>>,
                                   result |-> [status |-> "pending", provider |-> ""]])
       IN  /\ store' = done.store
           /\ log' = Append(log, [op |-> "execute", t |-> now, outcomes |-> outcomes,
                                  avail |-> run.out, invoked |-> done.invoked,
                                  attempts |-> done.attempts,
                                  result |-> done.result])
    /\ UNCHANGED <<now, limitOf>>
    /\ UNCHANGED <<redisVars, ucVars, facVars>>

NextSeq ==
    \/ \E outcomes \in [{configs[i].name : i \in DOMAIN configs} -> Outcomes] :
          SeqExecute(outcomes)
    \/ FTick

SpecSeq == InitSeq /\ [][NextSeq]_vars

\* ------------------------------------------------------- claims on SpecSeq
\* C22: Scenario A as a sequence of requests whose adapters answer with a
\* match: the first execute invokes A alone and returns A's result; every later
\* execute less than 3600 s after it does not invoke A, invokes B and returns
\* B's result.
C22_ScenarioA ==
    log # <<>> =>
        (log[1].outcomes[ORION_CONNECT] = "match" =>
            /\ Names(log[1].invoked) = <<ORION_CONNECT>>
            /\ log[1].result = [status |-> "match", provider |-> ORION_CONNECT]
            /\ \A j \in 2..Len(log) :
                  ( /\ log[j].t - log[1].t < ConsumeWindowSeconds * MsPerSecond
                    /\ log[j].outcomes[ASTRA_DIALER] = "match" )
                  => /\ Names(log[j].invoked) = <<ASTRA_DIALER>>
                     /\ log[j].result = [status |-> "match", provider |-> ASTRA_DIALER])

\* ------------------------------------------------------------- SpecPipeline
\* The filters, the sorter and the pipeline as functions of their input: a
\* provider list and a context are drawn, the pipeline is built with
\* addFilter, and one call is made on the list; log holds the call and what
\* it returned, configs the array that was passed in as it is afterwards.

\* priorities of the drawn providers; NIMBUS_LOOKUP can tie with either of
\* the others
PrioritiesOf(name) ==
    IF name = ORION_CONNECT THEN {10}
    ELSE IF name = NIMBUS_LOOKUP THEN {5, 10}
    ELSE {5}

\* rateLimit of the drawn providers, as in PROVIDER_CONFIGS: two limited
\* providers and an unlimited fallback
RateLimitOf(name) ==
    IF name = ORION_CONNECT THEN Some(1)
    ELSE IF name = NIMBUS_LOOKUP THEN Some(2)
    ELSE Undefined

\* minUserTier of the drawn providers: absent, or the tier PROVIDER_CONFIGS
\* names for the provider (FREE for the fallback)
MinUserTiersOf(name) ==
    IF name = ORION_CONNECT THEN {Undefined, Some(PREMIUM)}
    ELSE IF name = NIMBUS_LOOKUP THEN {Undefined, Some(BASIC)}
    ELSE {Undefined, Some(FREE)}

\* the configurations drawn for one provider name
ProviderVariants(name) ==
    {Provider(name, enabled, priority, RateLimitOf(name), minUserTier) :
        enabled \in BOOLEAN, priority \in PrioritiesOf(name),
        minUserTier \in MinUserTiersOf(name)}

\* the provider lists drawn: up to three providers with distinct names, in
\* any order
ProviderLists ==
    {<<>>}
    \cup UNION {{<<p>> : p \in ProviderVariants(n)} : n \in ProviderNames}
    \cup UNION {{<<p, q>> : p \in ProviderVariants(n), q \in ProviderVariants(m)} :
                   <<n, m>> \in {x \in ProviderNames \X ProviderNames : x[1] # x[2]}}
    \cup UNION {{<<p, q, r>> : p \in ProviderVariants(x[1]),
                               q \in ProviderVariants(x[2]),
                               r \in ProviderVariants(x[3])} :
                   x \in {y \in ProviderNames \X ProviderNames \X ProviderNames :
                             y[1] # y[2] /\ y[1] # y[3] /\ y[2] # y[3]}}

\* the contexts drawn: no userTier, or one of the tiers
PipelineContexts ==
    {[userTier |-> t] : t \in {Undefined, Some(FREE), Some(BASIC), Some(PREMIUM),
                                 Some(ENTERPRISE)}}

\* the kinds of filter that can be registered
FilterKinds == {"enabled", "tier", "rateLimit"}

\* mutant of SortInput: the array passed in is sorted in place
SortInputInPlace(providers) == PrioritySort(providers)

\* the array passed to PriorityProviderSorter.sort after the call: the sort
\* runs on the copy [...providers]
SortInput(providers) == providers

\* the array passed to ProviderSelectionPipeline.execute after the call: each
\* filter builds a new array, so the sorter is handed the input array itself
\* only when no filter is registered
PipelineInput(fs, providers) ==
    IF fs = <<>> THEN SortInput(providers) ELSE providers

\* the counters at the time of the call: ORION_CONNECT has used its one
\* request of the hour, NIMBUS_LOOKUP one of its two
InitPipeline ==
    /\ now = 0
    /\ store = [k \in {RateLimitKey(ORION_CONNECT, 0), RateLimitKey(NIMBUS_LOOKUP, 0)}
                  |-> <<0>>]
    /\ limitOf = [k \in MemKeys |-> 0]
    /\ log = <<>>
    /\ configs \in ProviderLists
    /\ providerMap = << >>
    /\ rateLimitFilter = FALSE
    /\ filters = <<>>
    /\ call = [c \in Callers |-> CallIdle]
    /\ RedisIdle
    /\ FacIdle

\* the record of one call
PipelineCall(op, context, out, again, reads) ==
    [op |-> op, input |-> configs, ctx |-> context, fs |-> filters, out |-> out,
     again |-> again, reads |-> reads]

\* pipeline.addFilter(filter): this.filters.push(filter)
PAddFilter(kind) ==
    /\ log = <<>>
    /\ \A i \in DOMAIN filters : filters[i] # kind
    /\ filters' = Append(filters, kind)
    /\ UNCHANGED <<now, configs, providerMap, rateLimitFilter, call>>
    /\ UNCHANGED <<memVars, redisVars, facVars>>

\* EnabledProviderFilter.filter(configs, {}), and the same filter applied to
\* what it returned
PEnabledFilter ==
    /\ log = <<>>
    /\ log' = <<PipelineCall("enabled", [userTier |-> Undefined],
                             EnabledFilter(configs),
                             EnabledFilter(EnabledFilter(configs)), <<>>)>>
    /\ UNCHANGED <<now, store, limitOf>>
    /\ UNCHANGED <<redisVars, ucVars, facVars>>

\* UserTierProviderFilter.filter(configs, context)
PUserTierFilter(context) ==
    /\ log = <<>>
    /\ log' = <<PipelineCall("tier", context, UserTierFilter(configs, context),
                             <<>>, <<>>)>>
    /\ UNCHANGED <<now, store, limitOf>>
    /\ UNCHANGED <<redisVars, ucVars, facVars>>

\* PriorityProviderSorter.sort(configs)
PSort ==
    /\ log = <<>>
    /\ log' = <<PipelineCall("sort", [userTier |-> Undefined], PrioritySort(configs),
                             <<>>, <<>>)>>
    /\ configs' = SortInput(configs)
    /\ UNCHANGED <<now, store, limitOf>>
    /\ UNCHANGED <<providerMap, rateLimitFilter, filters, call>>
    /\ UNCHANGED <<redisVars, facVars>>

\* pipeline.execute(configs, context) with the filters registered so far
PExecute(context) ==
    /\ log = <<>>
    /\ LET run == PipelineExecute(filters, configs, context, store, now, <<>>)
       IN  log' = <<PipelineCall("execute", context, run.out, <<>>, run.reads)>>
    /\ configs' = PipelineInput(filters, configs)
    /\ store' = IF \E i \in DOMAIN filters : filters[i] = "rateLimit"
                THEN RateLimitFilterStore(store, configs, now)
                ELSE store
    /\ UNCHANGED <<now, limitOf>>
    /\ UNCHANGED <<providerMap, rateLimitFilter, filters, call>>
    /\ UNCHANGED <<redisVars, facVars>>

NextPipeline ==
    \/ \E kind \in FilterKinds : PAddFilter(kind)
    \/ PEnabledFilter
    \/ \E context \in PipelineContexts : PUserTierFilter(context)
    \/ PSort
    \/ \E context \in PipelineContexts : PExecute(context)

SpecPipeline == InitPipeline /\ [][NextPipeline]_vars

\* -------------------------------------------------- claims on SpecPipeline
\* the elements of a sequence
Range(seq) == {seq[i] : i \in DOMAIN seq}

\* the position of provider p in the list
PositionIn(seq, p) == CHOOSE k \in DOMAIN seq : seq[k] = p

\* out is the list `input` with some providers left out: nothing added,
\* nothing twice, the order kept
IsSublist(out, input) == out = SelectSeq(input, LAMBDA p : p \in Range(out))

\* C24: the list returned by ProviderSelectionPipeline.execute (and by the
\* sorter it ends with) is in descending priority, and providers of equal
\* priority are in the order they had in the input.
C24_SortedStable ==
    \A e \in Range(log) :
        e.op \in {"execute", "sort"} =>
            \A i, j \in DOMAIN e.out :
                i < j =>
                    /\ e.out[i].priority >= e.out[j].priority
                    /\ e.out[i].priority = e.out[j].priority
                          => PositionIn(e.input, e.out[i]) < PositionIn(e.input, e.out[j])

\* execute returned three providers: the last of the input first, and behind
\* it two providers of equal priority in their input order
C24_Witness ==
    \E e \in Range(log) :
        /\ e.op = "execute"
        /\ Len(e.input) = 3 /\ Len(e.out) = 3
        /\ e.out = <<e.input[3], e.input[1], e.input[2]>>
        /\ e.input[1].priority = e.input[2].priority
        /\ e.input[3].priority > e.input[1].priority

\* provider p passes the filter `kind` for a call made with `context` while
\* the counters are those of the store
Passes(kind, p, context) ==
    IF kind = "enabled" THEN p.enabled
    ELSE IF kind = "tier"
    THEN \/ p.minUserTier = Undefined
         \/ (IF context.userTier = Undefined THEN FREE ELSE context.userTier[1])
               >= p.minUserTier[1]
    ELSE \/ p.rateLimit = Undefined
         \/ Len(MemEntry(store, RateLimitKey(p.name, HourOf(now)))) < p.rateLimit[1]

\* C25: execute returns exactly the providers of its input that pass every
\* registered filter, each once (with no filter: all of them, only sorted;
\* with an empty or fully filtered input: the empty list), and it applies the
\* filters in registration order: the rate-limit filter reads the counter of
\* exactly the limited providers that passed the filters registered before it.
C25_ExactlyThePassing ==
    \A e \in Range(log) :
        e.op = "execute" =>
            /\ Cardinality(Range(e.out)) = Len(e.out)
            /\ Range(e.out) =
                  {q \in Range(e.input) : \A i \in DOMAIN e.fs : Passes(e.fs[i], q, e.ctx)}
            /\ e.fs = <<>> => Len(e.out) = Len(e.input)
            /\ e.input = <<>> => e.out = <<>>
            /\ e.reads =
                  IF \E k \in DOMAIN e.fs : e.fs[k] = "rateLimit"
                  THEN LET k == CHOOSE x \in DOMAIN e.fs : e.fs[x] = "rateLimit"
                       IN  Names(SelectSeq(e.input, LAMBDA q :
                               /\ q.rateLimit # Undefined
                               /\ \A i \in 1..(k - 1) : Passes(e.fs[i], q, e.ctx)))
                  ELSE <<>>

\* execute with the enabled, tier and rate-limit filters, registered in that
\* order, on three providers of which each filter dropped one: the list
\* returned is empty, and of the two limited providers only the one that
\* reached the rate-limit filter had its counter read
C25_Witness ==
    \E e \in Range(log) :
        /\ e.op = "execute"
        /\ e.fs = <<"enabled", "tier", "rateLimit">>
        /\ Len(e.input) = 3
        /\ e.out = <<>>
        /\ \E q \in Range(e.input) : ~q.enabled
        /\ \E q \in Range(e.input) :
              q.enabled /\ ~Passes("tier", q, e.ctx) /\ q.rateLimit # Undefined
        /\ \E q \in Range(e.input) :
              /\ q.enabled /\ Passes("tier", q, e.ctx) /\ ~Passes("rateLimit", q, e.ctx)
              /\ e.reads = <<q.name>>

\* C26: UserTierProviderFilter keeps a provider with minUserTier = T exactly
\* when the userTier of the context, FREE (0) when it has none, is at least T,
\* keeps every provider without minUserTier, and returns the kept providers
\* in input order.
C26_TierIff ==
    \A e \in Range(log) :
        e.op = "tier" =>
            /\ IsSublist(e.out, e.input)
            /\ \A q \in Range(e.input) :
                  (q \in Range(e.out)) <=>
                      \/ q.minUserTier = Undefined
                      \/ (IF e.ctx.userTier = Undefined THEN FREE ELSE e.ctx.userTier[1])
                            >= q.minUserTier[1]

\* the tier filter called without a userTier on three providers: the one
\* without minUserTier and the one with minUserTier FREE are kept, the one
\* that asks for more is dropped
C26_Witness ==
    \E e \in Range(log) :
        /\ e.op = "tier"
        /\ e.ctx.userTier = Undefined
        /\ Len(e.input) = 3 /\ Len(e.out) = 2
        /\ \E q \in Range(e.out) : q.minUserTier = Undefined
        /\ \E q \in Range(e.out) : q.minUserTier = Some(FREE)
        /\ \E q \in Range(e.input) : q \notin Range(e.out) /\ q.minUserTier[1] > FREE

\* C27: EnabledProviderFilter returns exactly the enabled providers of its
\* input, in input order and never a disabled one, and applying it to its own
\* output returns that output again.
C27_EnabledExactIdempotent ==
    \A e \in Range(log) :
        e.op = "enabled" =>
            /\ IsSublist(e.out, e.input)
            /\ \A q \in Range(e.out) : q.enabled
            /\ \A q \in Range(e.input) : q.enabled => q \in Range(e.out)
            /\ e.again = e.out

\* the enabled filter called on three providers with a disabled one between
\* two enabled ones: it returned the two, in order, and again when applied twice
C27_Witness ==
    \E e \in Range(log) :
        /\ e.op = "enabled"
        /\ Len(e.input) = 3
        /\ e.input[1].enabled /\ ~e.input[2].enabled /\ e.input[3].enabled
        /\ e.out = <<e.input[1], e.input[3]>>
        /\ e.again = e.out

\* C28: no call of a filter, the sorter or the pipeline changes the provider
\* list it is given: the list has the same providers in the same order after
\* the call as before, with any registered filters or none.
C28_InputUnchanged == [][configs' = configs]_vars

\* execute ran with no filter registered on three providers given in
\* ascending priority: it returned them reordered and the list it was given
\* is as it was
C28_Witness ==
    \E e \in Range(log) :
        /\ e.op = "execute" /\ e.fs = <<>>
        /\ Len(e.input) = 3
        /\ e.input[1].priority < e.input[3].priority
        /\ e.out # e.input
        /\ configs = e.input

\* ------------------------- claims on SpecFilter: providers without a rateLimit
\* the providers of the list that have no rateLimit configured
Unlimited == {configs[i].name : i \in {j \in DOMAIN configs : configs[j].rateLimit = Undefined}}

\* C36 (state part): the store never holds a key of a provider without a
\* rateLimit.
C36_NoKeyForUnlimited ==
    \A k \in DOMAIN store : k[2] \notin Unlimited

\* C36 (step part): consumeRateLimit on a provider without a rateLimit
\* returns true and leaves the store as it was; filter keeps every such
\* provider and makes no getCount call for it.
C36_UnlimitedStep ==
    /\ (StepOp = "consumeRateLimit" /\ log'[Len(log')].key \in Unlimited)
          => (log'[Len(log')].res = TRUE /\ store' = store)
    /\ StepOp = "filter"
          => /\ Unlimited \subseteq log'[Len(log')].res
             /\ \A i \in DOMAIN GetCountReads("rateLimit", configs) :
                    GetCountReads("rateLimit", configs)[i] \notin Unlimited

\* C36: a provider without a configured rateLimit always passes
\* RateLimitProviderFilter.filter and consumeRateLimit always returns true for
\* it, in both cases without reading or changing any store state.
C36_UnlimitedAlwaysPasses ==
    [](C36_NoKeyForUnlimited) /\ [][C36_UnlimitedStep]_vars

\* a provider without a rateLimit was consumed three times at one clock
\* value, more often than any configured limit allows, every call returned
\* true, a filter call then kept it, and the store is still empty
C36_Witness ==
    /\ Len(log) = 4
    /\ \A j \in 1..3 :
          /\ log[j].op = "consumeRateLimit" /\ log[j].res
          /\ log[j].key = log[1].key /\ log[j].t = now
    /\ log[1].key \in Unlimited
    /\ log[4].op = "filter" /\ log[1].key \in log[4].res
    /\ store = << >>

\* ------------------------------------------ claims on SpecOps: disconnect
\* C37 (step part): a disconnect() leaves the recorded consumptions of every
\* key as they were, and a consumeRateLimit that would have been refused
\* before it is still refused after it.
C37_DisconnectStep ==
    StepOp = "disconnect" =>
        /\ store' = store
        /\ \A i \in DOMAIN configs :
               ~ConsumeRateLimitResult(store, configs[i], now)
                   => ~ConsumeRateLimitResult(store', configs[i], now)

\* C37: disconnect() on the in-memory store is a no-op: it resolves without
\* error, leaves every key's recorded consumptions unchanged, and the store
\* keeps working afterwards.
C37_DisconnectIsNoOp == [][C37_DisconnectStep]_vars

\* ----------------------------------------------------- claims on SpecTerm
\* the names in the sequence of records s are pairwise different
DistinctNames(s) ==
    \A i, j \in DOMAIN s : s[i].name = s[j].name => i = j

\* C38 (safety part): within one call each provider's adapter is invoked at
\* most once and consumeRateLimit (tryConsume) is called at most once per
\* provider, only for eligible providers, so the call makes at most as many
\* adapter invocations as there are eligible providers.
C38_AtMostOncePerProvider ==
    \A c \in Callers :
        /\ DistinctNames(call[c].invoked)
        /\ DistinctNames(call[c].attempts)
        /\ \A i \in DOMAIN call[c].invoked :
               \E k \in DOMAIN call[c].avail :
                   call[c].avail[k].name = call[c].invoked[i].name
        /\ \A i \in DOMAIN call[c].attempts :
               \E k \in DOMAIN call[c].avail :
                   call[c].avail[k].name = call[c].attempts[i].name
        /\ Len(call[c].invoked) <= Len(call[c].avail)
        /\ Len(call[c].attempts) <= Len(call[c].avail)

\* C38 (liveness part): a call of execute that has started returns.
C38_Terminates ==
    \A c \in Callers : (call[c].pc # "idle") ~> (call[c].pc = "done")

\* C38: FindPhoneUseCase.execute terminates whenever every store and adapter
\* call returns, after at most one adapter invocation and one tryConsume per
\* eligible provider.
C38_ExecuteTerminates == [](C38_AtMostOncePerProvider) /\ C38_Terminates

\* a call has returned null after it went through three eligible providers,
\* consuming a slot of each and invoking each adapter once without a match
C38_Witness ==
    \E c \in Callers :
        /\ call[c].pc = "done"
        /\ call[c].result.status = "null"
        /\ Len(call[c].avail) = 3
        /\ Len(call[c].invoked) = 3
        /\ Len(call[c].attempts) = 3
        /\ \A i \in 1..3 : call[c].invoked[i].outcome \in {"null", "throw"}

\* ----------------------------------------------------------- SpecWorkflow
\* findPhoneWorkflow run by the workflow engine, two runs at a time: the
\* getAvailablePhoneProviders activity, then one provider activity after the
\* other, each attempt of an activity being one step.  No REDIS_URL is set:
\* every activity module holds its own InMemoryRateLimitStore (their keys do
\* not overlap, `store` is their union) and getAvailablePhoneProviders reads
\* a store it has just created.

\* retry.maximumAttempts of the provider activities
MaximumAttempts == 2

\* what one attempt of a provider activity can do once it calls the adapter:
\* a match, null, an error thrown by the adapter, or no answer within
\* startToCloseTimeout
AttemptOutcomes == {"match", "null", "throw", "timeout"}

\* a workflow run that has not started
WfIdle ==
    [pc |-> "idle", ctx |-> [userTier |-> Undefined], avail |-> <<>>, idx |-> 0,
     attempt |-> 0, tried |-> <<>>, attempts |-> <<>>, invoked |-> <<>>,
     result |-> [status |-> "pending", provider |-> ""]]

\* mapProviderActivity(providerName): the activity of the provider, or null
MapProviderActivity(name) ==
    IF name \in {ASTRA_DIALER, NIMBUS_LOOKUP, ORION_CONNECT} THEN Some(name)
    ELSE Undefined

\* PROVIDER_CONFIGS.find(c => c.name === name): the first entry of that name
FindConfig(name) ==
    configs[CHOOSE i \in DOMAIN configs :
                /\ configs[i].name = name
                /\ \A j \in 1..(i - 1) : configs[j].name # name]

\* the engine runs another attempt of a failed activity while fewer than
\* maximumAttempts have been made
RetriesLeft(attempt) == attempt < MaximumAttempts

\* mutant of WorkflowAfter: the failure of an activity is thrown on
WorkflowAfterRethrowing(ending) ==
    IF ending = "match" THEN "return"
    ELSE IF ending \in {"failed", "unmapped"} THEN "throw"
    ELSE "continue"

\* the body of the waterfall loop once the provider is dealt with:
\* `if (result) return result`, and `continue` from the catch block when the
\* activity failed after its retries or no activity is mapped
WorkflowAfter(ending) ==
    IF ending = "match" THEN "return" ELSE "continue"

\* the run after the provider at avail[idx] ended with `ending`
WfSettle(r, ending) ==
    LET name == r.avail[r.idx].name
        done == [r EXCEPT !.tried = Append(r.tried, [name |-> name, ending |-> ending]),
                          !.attempt = 0]
    IN  IF WorkflowAfter(ending) = "return"
        THEN [done EXCEPT !.pc = "done",
                          !.result = [status |-> "match", provider |-> name]]
        ELSE IF WorkflowAfter(ending) = "continue"
        THEN [done EXCEPT !.pc = "loop", !.idx = r.idx + 1]
        ELSE [done EXCEPT !.pc = "done",
                          !.result = [status |-> "threw", provider |-> name]]

InitWorkflow ==
    /\ now = 0
    /\ store = << >>
    /\ limitOf = [k \in MemKeys |-> 0]
    /\ log = <<>>
    /\ configs \in ConfigLists
    /\ providerMap = AdapterMap(ProviderNames)
    /\ rateLimitFilter = TRUE
    /\ filters = <<"enabled", "tier", "rateLimit">>
    /\ call = [c \in Callers |-> WfIdle]
    /\ RedisIdle
    /\ FacIdle

\* findPhoneWorkflow(params) starts: userTier: params.userTier ?? UserTier.FREE
WfStart(c, userTier) ==
    /\ call[c].pc = "idle"
    /\ Cardinality({d \in Callers : call[d].pc # "idle"}) < MaxRuns
    /\ call' = [call EXCEPT ![c] =
                   [WfIdle EXCEPT !.pc = "providers",
                                  !.ctx = [userTier |-> IF userTier = Undefined
                                                        THEN Some(FREE) ELSE userTier]]]
    /\ UNCHANGED <<now, configs, providerMap, rateLimitFilter, filters>>
    /\ UNCHANGED <<memVars, redisVars, facVars>>

\* the getAvailablePhoneProviders activity completes: the pipeline of the
\* enabled, tier and rate-limit filters over PROVIDER_CONFIGS, the rate-limit
\* filter reading the store the activity has just obtained from the factory
WfGetAvailable(c) ==
    /\ call[c].pc = "providers"
    /\ call' = [call EXCEPT
                   ![c].avail = PipelineExecute(filters, configs, call[c].ctx,
                                                << >>, now, <<>>).out,
                   ![c].idx = 1,
                   ![c].pc = "loop"]
    /\ UNCHANGED <<now, configs, providerMap, rateLimitFilter, filters>>
    /\ UNCHANGED <<memVars, redisVars, facVars>>

\* the getAvailablePhoneProviders activity fails in every attempt (it does
\* not complete within startToCloseTimeout): the await is outside the try
\* block and the workflow fails
WfGetAvailableFails(c) ==
    /\ call[c].pc = "providers"
    /\ call' = [call EXCEPT ![c].pc = "done",
                            ![c].result = [status |-> "threw", provider |-> ""]]
    /\ UNCHANGED <<now, configs, providerMap, rateLimitFilter, filters>>
    /\ UNCHANGED <<memVars, redisVars, facVars>>

\* the loop takes the next provider: mapProviderActivity, and the activity is
\* scheduled; without a mapped activity the error thrown is caught
WfSchedule(c) ==
    /\ call[c].pc = "loop"
    /\ call[c].idx <= Len(call[c].avail)
    /\ call' = [call EXCEPT ![c] =
                   IF MapProviderActivity(call[c].avail[call[c].idx].name) = Undefined
                   THEN WfSettle(call[c], "unmapped")
                   ELSE [call[c] EXCEPT !.pc = "activity", !.attempt = 1]]
    /\ UNCHANGED <<now, configs, providerMap, rateLimitFilter, filters>>
    /\ UNCHANGED <<memVars, redisVars, facVars>>

\* one attempt of the provider activity: consumeRateLimit(config), null when
\* it is refused, otherwise provider.findPhone(params); an error is thrown
\* on and the engine retries the activity or reports its failure
WfAttempt(c, outcome) ==
    /\ call[c].pc = "activity"
    /\ LET r == call[c]
           config == FindConfig(r.avail[r.idx].name)
           allowed == ConsumeRateLimitResult(store, config, now)
           tried == [r EXCEPT !.attempts =
                        Append(r.attempts,
                               [name |-> config.name, allowed |-> allowed,
                                attempt |-> r.attempt, t |-> now,
                                recorded |-> allowed /\ config.rateLimit # Undefined])]
           called == [tried EXCEPT !.invoked =
                         Append(r.invoked, [name |-> config.name,
                                            outcome |-> outcome,
                                            attempt |-> r.attempt])]
       IN  /\ store' = ConsumeRateLimitStore(store, config, now)
           /\ IF ~allowed
              THEN /\ outcome = "null"
                   /\ call' = [call EXCEPT ![c] = WfSettle(tried, "denied")]
              ELSE IF outcome \in {"match", "null"}
              THEN call' = [call EXCEPT ![c] = WfSettle(called, outcome)]
              ELSE IF RetriesLeft(r.attempt)
              THEN call' = [call EXCEPT ![c] =
                               [called EXCEPT !.attempt = r.attempt + 1]]
              ELSE call' = [call EXCEPT ![c] = WfSettle(called, "failed")]
    /\ UNCHANGED <<now, limitOf, log, configs, providerMap, rateLimitFilter,
                   filters>>
    /\ UNCHANGED <<redisVars, facVars>>

\* the list is exhausted: `return null`
WfExhausted(c) ==
    /\ call[c].pc = "loop"
    /\ call[c].idx > Len(call[c].avail)
    /\ call' = [call EXCEPT ![c].pc = "done",
                            ![c].result = [status |-> "null", provider |-> ""]]
    /\ UNCHANGED <<now, configs, providerMap, rateLimitFilter, filters>>
    /\ UNCHANGED <<memVars, redisVars, facVars>>

NextWorkflow ==
    \/ \E c \in Callers, userTier \in {Undefined, Some(PREMIUM)} : WfStart(c, userTier)
    \/ \E c \in Callers : WfGetAvailable(c)
    \/ \E c \in Callers : WfGetAvailableFails(c)
    \/ \E c \in Callers : WfSchedule(c)
    \/ \E c \in Callers, outcome \in AttemptOutcomes : WfAttempt(c, outcome)
    \/ \E c \in Callers : WfExhausted(c)
    \/ UcTick

SpecWorkflow == InitWorkflow /\ [][NextWorkflow]_vars

\* ------------------------------------------------- claims on SpecWorkflow
\* number of slots run c has consumed for provider `name`
SlotsConsumed(c, name) ==
    Len(SelectSeq(call[c].attempts, LAMBDA a : a.name = name /\ a.recorded))

\* C32: one findPhoneWorkflow run makes at most one rate-limit consumption
\* per provider, also when the provider activity throws and the engine
\* retries it: a retried attempt does not consume a second slot.
C32_OneSlotPerProvider ==
    \A c \in Callers : \A name \in ProviderNames : SlotsConsumed(c, name) <= 1

\* how a provider can end without a result: null from the adapter, null
\* because its rate limit refused the attempt, failure after its retries
\* (errors thrown or timeouts), or no mapped activity
NoResultEndings == {"null", "denied", "failed", "unmapped"}

InitLazy ==
    /\ now = 0
    /\ impl = "sequential"
    /\ zset = << >>
    /\ expireAt = 0
    /\ rlimit = 1
    /\ wk = [w \in Workers |-> WkIdle]
    /\ rlog = <<>>
    /\ MemIdle
    /\ UcIdle
    /\ env \in [redisUrl : RedisUrls]
    /\ inst = [h \in Holders |-> NoStore]
    /\ flog = <<>>
    /\ LazyIdle

\* invocation a enters the initialiser of module h: `if (findPhoneUseCase)
\* return findPhoneUseCase` / `if (!rateLimitFilter) { ... }`, and otherwise
\* calls RateLimitStoreFactory.create and waits for it
LzEnter(a, h) ==
    /\ act[a].pc = "idle"
    /\ act' = [act EXCEPT ![a] =
                  IF singleton[h] # 0
                  THEN [ActIdle EXCEPT !.pc = "ready", !.holder = h,
                                       !.held = singleton[h]]
                  ELSE [ActIdle EXCEPT !.pc = "creating", !.holder = h]]
    /\ UNCHANGED <<now, env, inst, flog, stores, singleton>>
    /\ UNCHANGED <<memVars, redisVars, ucVars>>

\* the create call of invocation a resolves: the use case (the filter) is
\* built around the new store, assigned to the module variable and returned
LzCreated(a, connectOk) ==
    /\ act[a].pc = "creating"
    /\ LET config == [redisUrl |-> env.redisUrl, forceInMemory |-> FALSE]
           made == [holder |-> act[a].holder,
                    kind |-> FactoryCreate(config, connectOk), mem |-> << >>]
       IN  /\ stores' = Append(stores, made)
           /\ singleton' = [singleton EXCEPT ![act[a].holder] = Len(stores) + 1]
           /\ act' = [act EXCEPT ![a].pc = "ready", ![a].held = Len(stores) + 1]
    /\ UNCHANGED <<now, env, inst, flog>>
    /\ UNCHANGED <<memVars, redisVars, ucVars>>

\* invocation a consumes through the store it holds:
\* tryConsume(PairKey, rlimit, 3600)
LzConsume(a) ==
    /\ act[a].pc = "ready"
    /\ LET held == stores[act[a].held]
       IN  IF held.kind = "redis"
           THEN /\ zset' = RedisTryConsumeZset(impl, zset, rlimit,
                                               ConsumeWindowSeconds, now)
                /\ expireAt' = RedisTryConsumeExpireAt(impl, zset, expireAt, rlimit,
                                                       ConsumeWindowSeconds, now)
                /\ stores' = stores
                /\ act' = [act EXCEPT ![a].pc = "done",
                              ![a].res = RedisTryConsumeResult(zset, rlimit,
                                                               ConsumeWindowSeconds, now)]
           ELSE /\ stores' = [stores EXCEPT ![act[a].held].mem =
                                 MemTryConsumeStore(held.mem, PairKey, rlimit,
                                                    ConsumeWindowSeconds, now)]
                /\ act' = [act EXCEPT ![a].pc = "done",
                              ![a].res = MemTryConsumeResult(held.mem, PairKey, rlimit,
                                                             ConsumeWindowSeconds, now)]
                /\ UNCHANGED <<zset, expireAt>>
    /\ UNCHANGED <<now, impl, rlimit, wk, rlog, env, inst, flog, singleton>>
    /\ UNCHANGED <<memVars, ucVars>>

NextLazy ==
    \/ \E a \in Invocations, h \in LazyHolders : LzEnter(a, h)
    \/ \E a \in Invocations, connectOk \in BOOLEAN : LzCreated(a, connectOk)
    \/ \E a \in Invocations : LzConsume(a)

SpecLazy == InitLazy /\ [][NextLazy]_vars

\* ----------------------------------------------------- claims on SpecLazy
\* C34: the lazily initialised singletons are constructed at most once per
\* process: however the invocations interleave, one rate-limit store is
\* created per module and every invocation of the module consumes against
\* that same store.
C34_SingletonCreatedOnce ==
    /\ \A h \in LazyHolders :
          Cardinality({i \in DOMAIN stores : stores[i].holder = h}) <= 1
    /\ \A a, b \in Invocations :
          (/\ act[a].pc \in {"ready", "done"}
           /\ act[b].pc \in {"ready", "done"}
           /\ act[a].holder = act[b].holder)
          => act[a].held = act[b].held

====
